---- MODULE Spec2Model ----
(***************************************************************************)
(* A model of zsh-tool: the MCP server's task registry, background sweep   *)
(* and notification queue (src/serve/mod.rs), the NEVERHANG circuit        *)
(* breaker (src/circuit.rs) and the Executor's stdin path                  *)
(* (src/executor.rs).                                                      *)
(*                                                                         *)
(* Time is an integer clock `now` (seconds); Option<f64> fields are sets   *)
(* with at most one element ({} is None).                                  *)
(***************************************************************************)
EXTENDS Integers, Sequences, FiniteSets, TLC

\* ------------------------------------------------------------------ bounds

\* The clock runs from 0 to MaxTime.
MaxTime == 2
\* record_timeout is not called once this many timeouts were recorded since the
\* failure list was last cleared.
MaxFailures == 3
\* Number of tasks the server registers in one run.
MaxTasks == 1
\* Bytes of output a command writes in all.
MaxOutput == 1
\* Inputs zsh_send accepts for one task.
MaxSends == 1
\* The server's breaker, in clock units: Config::default() scaled down.
FailureThreshold == 1
RecoveryTimeout == 0
SampleWindow == 1
\* Executors that record into the store at overlapping times.
MaxExecutors == 2
\* Observations inserted into the store in one run.
MaxRows == 3
\* recent_commands rows older than this are deleted by record (6000 s, scaled down).
RecentKeep == 1
\* Largest timeout an Executor is started with, in clock units.
MaxTimeoutSecs == 1
\* Messages a client sends on one connection.
MaxMessages == 3
\* Exit code of an Executor that could not run the command.
ExecFailed == 127
\* Largest max_entries prune is given.
MaxEntries == 2
\* Largest half-life prune is given, in clock units.
MaxHalfLife == 1
\* Largest threshold / timeout / window a breaker is constructed with.
MaxThreshold == 2
MaxRecovery == 1
MaxWindow == 2

\* The fingerprints hash_command gives the commands that are run.
Hashes == {"h1"}
\* The strings zsh_send is given.
Inputs == {"y"}
TaskIds == 1..MaxTasks

VARIABLES
    cb,      \* the CircuitBreaker struct
    now,     \* the wall clock read by CircuitBreaker::now()
    call,    \* the breaker call that has just returned: its name, the breaker before it, its return value
    tlog,    \* timestamps of the record_timeout calls made since the failure list was last cleared
    tasks,       \* TaskRegistry.tasks: task id -> TaskInfo
    event_queue, \* ServerState.event_queue
    procs,       \* the Executor process of each registered task, its pipes and its meta file
    next_id,     \* the number of tasks registered so far; task ids are fresh uuid prefixes,
                 \* numbered here in the order of registration
    resp,        \* the response to the last tools/call request
    obs,         \* per task: what the caller has been shown since the task finished
    db,          \* the ALAN store: the tables streaks, observations, recent_commands, ssh_observations
    rec,         \* the ALAN call, or the tool call using the store, that has just returned:
                 \* its name, its arguments, the store before it
    conns,       \* per Executor connected to the store: how far its record call has come,
                 \* or what its command did
    ex,          \* one run of the Executor: the shell child, its pipes, the meta file
    io           \* the server's connection: messages received, responses written, framing mode

breakerVars == <<cb, now, call, tlog>>
serverVars == <<tasks, event_queue, procs, next_id, resp, obs>>
auxVars == <<db, rec, conns, ex, io>>
vars == <<cb, now, call, tlog, tasks, event_queue, procs, next_id, resp, obs,
          db, rec, conns, ex, io>>

\* ------------------------------------------------- src/circuit.rs

\* CircuitBreaker::new
CircuitBreaker_new(failure_threshold, recovery_timeout, sample_window) ==
    [ state |-> "Closed",
      failures |-> <<>>,
      last_failure |-> {},
      opened_at |-> {},
      failure_threshold |-> failure_threshold,
      recovery_timeout |-> recovery_timeout,
      sample_window |-> sample_window ]

\* self.failures.retain(|(t, _)| *t > cutoff)
retain(failures, cutoff) == SelectSeq(failures, LAMBDA f : f.t > cutoff)

\* mutants of record_timeout
record_timeout_gt(b, t, command_hash) ==
    LET fs == retain(Append(b.failures, [t |-> t, h |-> command_hash]), t - b.sample_window)
    IN  IF Len(fs) > b.failure_threshold
        THEN [b EXCEPT !.failures = fs, !.last_failure = {t},
                       !.state = "Open", !.opened_at = {t}]
        ELSE [b EXCEPT !.failures = fs, !.last_failure = {t}]

\* CircuitBreaker::record_timeout, with `t` the value of Self::now()
record_timeout(b, t, command_hash) ==
    LET fs == retain(Append(b.failures, [t |-> t, h |-> command_hash]), t - b.sample_window)
    IN  IF Len(fs) >= b.failure_threshold
        THEN [b EXCEPT !.failures = fs, !.last_failure = {t},
                       !.state = "Open", !.opened_at = {t}]
        ELSE [b EXCEPT !.failures = fs, !.last_failure = {t}]

\* CircuitBreaker::record_success
record_success(b) ==
    IF b.state = "HalfOpen"
    THEN [b EXCEPT !.state = "Closed", !.failures = <<>>]
    ELSE b

\* CircuitBreaker::should_allow, with `t` the value of Self::now():
\* the breaker afterwards, the bool and the message returned
\* mutant of should_allow: the probe is allowed once recovery_timeout seconds
\* have passed, not only after more than that
should_allow_ge(b, t) ==
    CASE b.state = "Closed" ->
            [cb |-> b, allowed |-> TRUE, msg |-> "none"]
      [] b.state = "Open" ->
            IF b.opened_at # {}
            THEN LET opened_at == CHOOSE x \in b.opened_at : TRUE
                     elapsed == t - opened_at
                 IN  IF elapsed >= b.recovery_timeout
                     THEN [cb |-> [b EXCEPT !.state = "HalfOpen"],
                           allowed |-> TRUE, msg |-> "half-open, testing recovery"]
                     ELSE [cb |-> b, allowed |-> FALSE, msg |-> "Circuit OPEN, retry in"]
            ELSE [cb |-> b, allowed |-> FALSE, msg |-> "Circuit OPEN"]
      [] b.state = "HalfOpen" ->
            [cb |-> b, allowed |-> TRUE, msg |-> "half-open, monitoring"]

\* mutant of should_allow: a HalfOpen breaker admits nothing more
should_allow_single_probe(b, t) ==
    CASE b.state = "Closed" ->
            [cb |-> b, allowed |-> TRUE, msg |-> "none"]
      [] b.state = "Open" ->
            IF b.opened_at # {}
            THEN LET opened_at == CHOOSE x \in b.opened_at : TRUE
                     elapsed == t - opened_at
                 IN  IF elapsed > b.recovery_timeout
                     THEN [cb |-> [b EXCEPT !.state = "HalfOpen"],
                           allowed |-> TRUE, msg |-> "half-open, testing recovery"]
                     ELSE [cb |-> b, allowed |-> FALSE, msg |-> "Circuit OPEN, retry in"]
            ELSE [cb |-> b, allowed |-> FALSE, msg |-> "Circuit OPEN"]
      [] b.state = "HalfOpen" ->
            [cb |-> b, allowed |-> FALSE, msg |-> "half-open, monitoring"]

should_allow(b, t) ==
    CASE b.state = "Closed" ->
            [cb |-> b, allowed |-> TRUE, msg |-> "none"]
      [] b.state = "Open" ->
            IF b.opened_at # {}
            THEN LET opened_at == CHOOSE x \in b.opened_at : TRUE
                     elapsed == t - opened_at
                 IN  IF elapsed > b.recovery_timeout
                     THEN [cb |-> [b EXCEPT !.state = "HalfOpen"],
                           allowed |-> TRUE, msg |-> "half-open, testing recovery"]
                     ELSE [cb |-> b, allowed |-> FALSE, msg |-> "Circuit OPEN, retry in"]
            ELSE [cb |-> b, allowed |-> FALSE, msg |-> "Circuit OPEN"]
      [] b.state = "HalfOpen" ->
            [cb |-> b, allowed |-> TRUE, msg |-> "half-open, monitoring"]

\* mutant of reset: the failure list is kept
reset_keep_failures(b) ==
    [b EXCEPT !.state = "Closed", !.last_failure = {}, !.opened_at = {}]

\* CircuitBreaker::reset
reset(b) ==
    [b EXCEPT !.state = "Closed", !.failures = <<>>,
              !.last_failure = {}, !.opened_at = {}]

\* ------------------------------------------------- src/serve/mod.rs

Put(f, k, v) == [x \in DOMAIN f \cup {k} |-> IF x = k THEN v ELSE f[x]]
Del(f, k) == [x \in DOMAIN f \ {k} |-> f[x]]
Last(s) == s[Len(s)]

\* What execute_pipe / execute_pty return and run_exec writes to the meta file:
\* a command that succeeds, one that fails, one killed at its timeout (the
\* shell never reached the pipestatus echo, so pipestatus is [exit_code] = [-1]).
ExecResults ==
    { [pipestatus |-> <<0>>, timed_out |-> FALSE],
      [pipestatus |-> <<1>>, timed_out |-> FALSE],
      [pipestatus |-> <<-1>>, timed_out |-> TRUE] }

\* No result: of an Executor that has not ended, or of one that ended and left
\* no meta file the server can read (write_meta failed, or wrote a part).
NoResult == [pipestatus |-> <<>>, timed_out |-> FALSE]

\* The Executor child spawned by handle_zsh: `state` is running, exited (a
\* zombie, not yet waited for) or reaped; `meta` says whether the meta file
\* exists and `result` what the Executor computed; out_cmd are the bytes the
\* command has written that the Executor's stdout thread has not pumped yet,
\* pipe the bytes in the server's end of the stdout pipe; stdin_pipe holds what
\* the server wrote to the Executor's stdin, cmd_stdin what reached the command.
NewProc(use_pty, n) ==
    [ state |-> "running", pty |-> use_pty, result |-> NoResult, meta |-> FALSE,
      out_cmd |-> 0, pipe |-> n, stdin_pipe |-> <<>>, cmd_stdin |-> <<>> ]

\* The server state the handlers work on.
St == [tasks |-> tasks, event_queue |-> event_queue, procs |-> procs,
       cb |-> cb, next_id |-> next_id]

\* A tool result. `status` is the frame's status ("text" and "error_content"
\* are results that are not task frames), `error` its error text.
Frame(status, task_id, pipestatus, error, new_bytes) ==
    [ status |-> status, task_id |-> task_id, pipestatus |-> pipestatus,
      error |-> error, new_bytes |-> new_bytes ]

text_content(text) == Frame("text", 0, <<>>, text, 0)
error_content(text) == Frame("error_content", 0, <<>>, text, 0)

\* The word of the status line format_task_output writes for a frame.
format_task_output(frame) ==
    CASE frame.status = "running" -> "RUNNING"
      [] frame.status = "completed" ->
            LET overall == IF frame.pipestatus = <<>> THEN 0 ELSE Last(frame.pipestatus)
            IN  IF overall = 0 THEN "COMPLETED" ELSE "FAILED"
      [] frame.status = "timeout" -> "TIMEOUT"
      [] frame.status = "killed" -> "KILLED"
      [] frame.status = "error" -> "ERROR"
      [] OTHER -> "none"

\* enqueue_event
enqueue_event(S, task_id, exit_code) ==
    [S EXCEPT !.event_queue = Append(@, [task_id |-> task_id, exit_code |-> exit_code])]

\* mutant of suppress_event_for_task: the queue is left as it is
suppress_event_for_task_noop(S, task_id) == S

\* suppress_event_for_task
suppress_event_for_task(S, task_id) ==
    [S EXCEPT !.event_queue = SelectSeq(@, LAMBDA ev : ev.task_id # task_id)]

\* mutant of finalize_task: a meta file that cannot be read counts as exit code 1
finalize_task_default_failed(S, task_id, command, p, t, suppress_notification) ==
    LET pipestatus == IF p.meta THEN p.result.pipestatus ELSE <<1>>
        overall_exit == IF pipestatus = <<>> THEN 0 ELSE Last(pipestatus)
        timed_out == p.meta /\ p.result.timed_out
        S1 == [S EXCEPT !.cb = IF timed_out THEN record_timeout(@, t, command)
                                            ELSE record_success(@)]
        S2 == IF suppress_notification THEN S1
              ELSE enqueue_event(S1, task_id, overall_exit)
    IN  [ S |-> S2,
          p |-> [p EXCEPT !.meta = FALSE],
          frame |-> Frame("completed", task_id, pipestatus, "", 0) ]

\* mutant of finalize_task: a timeout found by the sweep is recorded as a success
finalize_task_success_only(S, task_id, command, p, t, suppress_notification) ==
    LET pipestatus == IF p.meta THEN p.result.pipestatus ELSE <<0>>
        overall_exit == IF pipestatus = <<>> THEN 0 ELSE Last(pipestatus)
        timed_out == p.meta /\ p.result.timed_out
        S1 == [S EXCEPT !.cb = IF timed_out /\ suppress_notification
                               THEN record_timeout(@, t, command)
                               ELSE record_success(@)]
        S2 == IF suppress_notification THEN S1
              ELSE enqueue_event(S1, task_id, overall_exit)
    IN  [ S |-> S2,
          p |-> [p EXCEPT !.meta = FALSE],
          frame |-> Frame("completed", task_id, pipestatus, "", 0) ]

\* mutant of finalize_task: the event is enqueued whoever receives the result
finalize_task_always_notify(S, task_id, command, p, t, suppress_notification) ==
    LET pipestatus == IF p.meta THEN p.result.pipestatus ELSE <<0>>
        overall_exit == IF pipestatus = <<>> THEN 0 ELSE Last(pipestatus)
        timed_out == p.meta /\ p.result.timed_out
        S1 == [S EXCEPT !.cb = IF timed_out THEN record_timeout(@, t, command)
                                            ELSE record_success(@)]
        S2 == enqueue_event(S1, task_id, overall_exit)
    IN  [ S |-> S2,
          p |-> [p EXCEPT !.meta = FALSE],
          frame |-> Frame("completed", task_id, pipestatus, "", 0) ]

\* finalize_task for the Executor `p` of task `task_id`: reads the meta file,
\* updates the breaker, deletes the meta file, enqueues the event unless
\* suppressed. Gives the state afterwards, the Executor afterwards and the frame.
finalize_task(S, task_id, command, p, t, suppress_notification) ==
    LET pipestatus == IF p.meta THEN p.result.pipestatus ELSE <<0>>
        overall_exit == IF pipestatus = <<>> THEN 0 ELSE Last(pipestatus)
        timed_out == p.meta /\ p.result.timed_out
        S1 == [S EXCEPT !.cb = IF timed_out THEN record_timeout(@, t, command)
                                            ELSE record_success(@)]
        S2 == IF suppress_notification THEN S1
              ELSE enqueue_event(S1, task_id, overall_exit)
    IN  [ S |-> S2,
          p |-> [p EXCEPT !.meta = FALSE],
          frame |-> Frame("completed", task_id, pipestatus, "", 0) ]

\* mutant of try_wait_done: the Executor counts as exited once its meta file is there
try_wait_done_on_meta(p) == p.meta

\* Whether child.try_wait() finds the Executor exited: a zombie is reaped, and
\* for a child already waited for the handle gives the status it kept.
try_wait_done(p) == p.state \in {"exited", "reaped"}

\* mutant of MarkCompleted: the output is drained, the task is not marked
MarkCompleted_drain_only(task, p) ==
    [task EXCEPT !.output_buffer = @ + p.pipe]

\* mutant of MarkCompleted: the child handle is kept
MarkCompleted_keep_child(task, p) ==
    [task EXCEPT !.output_buffer = @ + p.pipe,
                 !.stdout = FALSE, !.stdin = FALSE, !.status = "completed"]

\* The end of collect_if_done and of handle_poll's completed branch: drain the
\* pipe to EOF into output_buffer, drop the handles, set status completed.
MarkCompleted(task, p) ==
    [task EXCEPT !.output_buffer = @ + p.pipe,
                 !.child = FALSE, !.stdout = FALSE, !.stdin = FALSE,
                 !.status = "completed"]

\* collect_if_done followed, when it returns Some, by the finalize_task call of
\* check_and_finalize_background_tasks (suppress_notification = false)
collect_and_finalize(S, task_id, t) ==
    IF task_id \notin DOMAIN S.tasks THEN S
    ELSE LET task == S.tasks[task_id]
             p == S.procs[task_id]
         IN  IF task.status # "running" \/ ~(task.child /\ try_wait_done(p)) THEN S
             ELSE LET S1 == [S EXCEPT !.tasks[task_id] = MarkCompleted(task, p)]
                      f == finalize_task(S1, task_id, task.command,
                                         [p EXCEPT !.state = "reaped", !.pipe = 0],
                                         t, FALSE)
                  IN  [f.S EXCEPT !.procs[task_id] = f.p]

RECURSIVE SweepIds(_, _, _)
SweepIds(S, ids, t) ==
    IF ids = <<>> THEN S
    ELSE SweepIds(collect_and_finalize(S, Head(ids), t), Tail(ids), t)

\* The orders in which a HashMap may yield the running tasks.
Orders(S) ==
    LET running == {id \in DOMAIN S.tasks : S.tasks[id].status = "running"}
        n == Cardinality(running)
    IN  {o \in [1..n -> running] : \A i, j \in 1..n : i # j => o[i] # o[j]}

\* check_and_finalize_background_tasks, visiting the running tasks in `order`
check_and_finalize_background_tasks(S, order, t) == SweepIds(S, order, t)

\* drain_events: the queue afterwards is empty; the lines are the events drained
drain_events(S) == [S |-> [S EXCEPT !.event_queue = <<>>], lines |-> S.event_queue]

\* mutant of prepend_events: the queue is read but not drained
prepend_events_keep(S) == [S |-> S, lines |-> S.event_queue]

\* prepend_events: every result has content[0].text, so the lines drained are
\* all prepended
prepend_events(S) == drain_events(S)

\* What the yield_after sleep of handle_zsh may find: the spawn failed, the
\* Executor already exited with a result, or it is still running with n bytes
\* of output readable so far.
QuietOutcomes ==
    {[kind |-> "spawn_failed", result |-> NoResult, n |-> 0]}
    \cup {[kind |-> "exited", result |-> r, n |-> 0] : r \in ExecResults}
    \cup {[kind |-> "running", result |-> NoResult, n |-> 0]}

Outcomes ==
    QuietOutcomes
    \cup {[kind |-> "running", result |-> NoResult, n |-> k] : k \in 1..MaxOutput}

\* The id of a task that is never registered (a uuid that is no key of the registry).
Unregistered == 0

\* handle_zsh; `command` stands for the command and its fingerprint
handle_zsh(S, command, use_pty, how, t) ==
    LET a == should_allow(S.cb, t)
        S1 == [S EXCEPT !.cb = a.cb]
        task_id == S.next_id + 1
        S2 == [S1 EXCEPT !.next_id = task_id]
    IN  IF ~a.allowed
        THEN [S |-> S1, frame |-> Frame("error", Unregistered, <<>>, a.msg, 0),
              spawned |-> FALSE]
        ELSE CASE how.kind = "spawn_failed" ->
                   [ S |-> S1,
                     frame |-> Frame("error", Unregistered, <<>>,
                                     "Failed to spawn executor", 0),
                     spawned |-> FALSE ]
               [] how.kind = "exited" ->
                   LET p == [NewProc(use_pty, 0) EXCEPT
                                !.state = "reaped", !.result = how.result,
                                !.meta = (how.result # NoResult)]
                       f == finalize_task(S1, Unregistered, command, p, t, TRUE)
                   IN  [S |-> f.S, frame |-> f.frame, spawned |-> TRUE]
               [] how.kind = "running" ->
                   [ S |-> [S2 EXCEPT
                              !.tasks = Put(@, task_id,
                                 [ task_id |-> task_id, command |-> command,
                                   status |-> "running",
                                   output_buffer |-> how.n, last_poll_offset |-> 0,
                                   has_stdin |-> use_pty, pipestatus |-> <<>>,
                                   is_pty |-> use_pty,
                                   child |-> TRUE, stdout |-> TRUE, stdin |-> use_pty ]),
                              !.procs = Put(@, task_id, NewProc(use_pty, 0))],
                     frame |-> Frame("running", task_id, <<>>, "", how.n),
                     spawned |-> TRUE ]

\* mutant of handle_poll: last_poll_offset is left where it was
handle_poll_keep_offset(S, task_id, t) ==
    IF task_id \notin DOMAIN S.tasks
    THEN [S |-> S, frame |-> error_content("Unknown task")]
    ELSE LET task == S.tasks[task_id]
             p == S.procs[task_id]
         IN  IF task.status # "running"
             THEN [ S |-> suppress_event_for_task(S, task_id),
                    frame |-> Frame(task.status, task_id, task.pipestatus, "", 0) ]
             ELSE LET read == [task EXCEPT !.output_buffer = @ + p.pipe]
                      p1 == [p EXCEPT !.pipe = 0]
                  IN  IF read.child /\ try_wait_done(p1)
                      THEN LET S1 == [S EXCEPT !.tasks[task_id] = MarkCompleted(read, p1)]
                               S2 == suppress_event_for_task(S1, task_id)
                               f == finalize_task(S2, task_id, task.command,
                                                  [p1 EXCEPT !.state = "reaped"], t, TRUE)
                           IN  [ S |-> [f.S EXCEPT !.procs[task_id] = f.p],
                                 frame |-> f.frame ]
                      ELSE LET new_bytes ==
                                   IF read.output_buffer >= read.last_poll_offset
                                   THEN read.output_buffer - read.last_poll_offset
                                   ELSE 0
                           IN  [ S |-> [S EXCEPT
                                          !.tasks[task_id] = read,
                                          !.procs[task_id] = p1],
                                 frame |-> Frame("running", task_id, <<>>, "", new_bytes) ]

\* handle_poll
handle_poll(S, task_id, t) ==
    IF task_id \notin DOMAIN S.tasks
    THEN [S |-> S, frame |-> error_content("Unknown task")]
    ELSE LET task == S.tasks[task_id]
             p == S.procs[task_id]
         IN  IF task.status # "running"
             THEN [ S |-> suppress_event_for_task(S, task_id),
                    frame |-> Frame(task.status, task_id, task.pipestatus, "", 0) ]
             ELSE LET read == [task EXCEPT !.output_buffer = @ + p.pipe]
                      p1 == [p EXCEPT !.pipe = 0]
                  IN  IF read.child /\ try_wait_done(p1)
                      THEN LET S1 == [S EXCEPT !.tasks[task_id] = MarkCompleted(read, p1)]
                               S2 == suppress_event_for_task(S1, task_id)
                               f == finalize_task(S2, task_id, task.command,
                                                  [p1 EXCEPT !.state = "reaped"], t, TRUE)
                           IN  [ S |-> [f.S EXCEPT !.procs[task_id] = f.p],
                                 frame |-> f.frame ]
                      ELSE LET new_bytes ==
                                   IF read.output_buffer >= read.last_poll_offset
                                   THEN read.output_buffer - read.last_poll_offset
                                   ELSE 0
                           IN  [ S |-> [S EXCEPT
                                          !.tasks[task_id] =
                                             [read EXCEPT !.last_poll_offset = read.output_buffer],
                                          !.procs[task_id] = p1],
                                 frame |-> Frame("running", task_id, <<>>, "", new_bytes) ]

\* mutant of send_data: the input is written as it is
send_data_raw(input) == <<input>>

\* format!("{}\n", input): the bytes one zsh_send writes
send_data(input) == <<input, "\n">>

\* handle_send: write_all of input + "\n" to the pipe to the Executor's stdin;
\* the write fails when the Executor has exited and the pipe has no reader
handle_send(S, task_id, input) ==
    IF task_id \notin DOMAIN S.tasks
    THEN [S |-> S, frame |-> error_content("Unknown task")]
    ELSE LET task == S.tasks[task_id]
         IN  IF task.status # "running"
             THEN [S |-> S, frame |-> error_content("Task is not running")]
             ELSE IF task.stdin
                  THEN IF S.procs[task_id].state = "running"
                       THEN [ S |-> [S EXCEPT !.procs[task_id].stdin_pipe =
                                                  Append(@, send_data(input))],
                              frame |-> text_content("Input sent") ]
                       ELSE [S |-> S, frame |-> error_content("Failed to write to stdin")]
                  ELSE [S |-> S, frame |-> error_content("Task has no stdin (not a PTY task)")]

\* mutant of handle_kill: a task that is no longer running is killed too
handle_kill_any(S, task_id) ==
    IF task_id \notin DOMAIN S.tasks
    THEN [S |-> S, frame |-> error_content("Unknown task")]
    ELSE LET task == S.tasks[task_id]
             p == S.procs[task_id]
         IN  IF FALSE
             THEN [S |-> S, frame |-> error_content("Task is not running")]
             ELSE [ S |-> [S EXCEPT
                             !.procs[task_id] =
                                [p EXCEPT !.state = "reaped", !.meta = FALSE,
                                          !.out_cmd = 0, !.pipe = 0],
                             !.tasks = Del(@, task_id)],
                    frame |-> Frame("killed", task_id, <<>>, "", 0) ]

\* handle_kill: SIGTERM, SIGKILL and wait() on the Executor, a last
\* read_available, the meta file removed, the task removed from the registry
handle_kill(S, task_id) ==
    IF task_id \notin DOMAIN S.tasks
    THEN [S |-> S, frame |-> error_content("Unknown task")]
    ELSE LET task == S.tasks[task_id]
             p == S.procs[task_id]
         IN  IF task.status # "running"
             THEN [S |-> S, frame |-> error_content("Task is not running")]
             ELSE [ S |-> [S EXCEPT
                             !.procs[task_id] =
                                [p EXCEPT !.state = "reaped", !.meta = FALSE,
                                          !.out_cmd = 0, !.pipe = 0],
                             !.tasks = Del(@, task_id)],
                    frame |-> Frame("killed", task_id, <<>>, "", 0) ]

\* handle_neverhang_reset
handle_neverhang_reset(S) ==
    [S |-> [S EXCEPT !.cb = reset(@)], frame |-> text_content("Circuit breaker reset")]


\* ------------------------------------------- tools/call, one request at a time

EmptyMap == [x \in {} |-> 0]

NoResp ==
    [ tool |-> "none", task_id |-> 0, frame |-> text_content(""),
      notify |-> <<>>, blocked |-> FALSE, spawned |-> FALSE, registered |-> FALSE,
      timed_out |-> FALSE, reset_from |-> "none", swept_timeout |-> FALSE ]

NewObs == [done |-> FALSE, called |-> FALSE, notes |-> 0, polled |-> FALSE, after_poll |-> FALSE]

UpTo2(n) == IF n > 2 THEN 2 ELSE n

\* The record of what the caller has seen, after a call of `tool` on task `arg`
\* whose response carried the [notify] lines `lines`; `raced` is a task whose
\* Executor exited while the call was being handled (0: none).
\*   done: the Executor exited while the task was registered as running
\*   called: a tool call was made after that
\*   notes: [notify] lines naming the task, over all responses (counted to 2)
\*   polled: zsh_poll was called for the task after it finished
\*   after_poll: a [notify] line naming the task came in that poll's response or later
ObsAfter(S, lines, tool, arg, raced) ==
    [id \in DOMAIN S.procs |->
        LET o == IF id \in DOMAIN obs THEN obs[id] ELSE NewObs
            n == Len(SelectSeq(lines, LAMBDA ev : ev.task_id = id))
            done == o.done \/ id = raced
            polled == o.polled \/ (tool = "zsh_poll" /\ arg = id /\ done)
        IN  [ done |-> done,
              called |-> o.called \/ o.done,
              notes |-> UpTo2(o.notes + n),
              polled |-> polled,
              after_poll |-> o.after_poll \/ (polled /\ n > 0) ]]

\* The state after a call, and the response written for it. Next to the
\* response, `resp` keeps what happened while it was computed: whether the
\* breaker was Open within its recovery timeout when the call arrived, whether
\* an Executor was spawned, whether a task was added to the registry, and
\* whether the meta file of the task the response is about said timed_out;
\* reset_from is, in the response of zsh_neverhang_reset, the state the breaker
\* was reset from and, in the response of the zsh call that follows it, the
\* same ("none" elsewhere); swept_timeout says whether the sweep of the call
\* finalized a task whose meta file said timed_out.
Responded(S, tool, arg, frame, lines, raced, ghost) ==
    /\ tasks' = S.tasks
    /\ event_queue' = S.event_queue
    /\ procs' = S.procs
    /\ cb' = S.cb
    /\ next_id' = S.next_id
    /\ resp' = [ tool |-> tool, task_id |-> arg, frame |-> frame, notify |-> lines,
                 blocked |-> ghost.blocked, spawned |-> ghost.spawned,
                 registered |-> ghost.registered, timed_out |-> ghost.timed_out,
                 reset_from |-> ghost.reset_from, swept_timeout |-> ghost.swept_timeout ]
    /\ obs' = ObsAfter(S, lines, tool, arg, raced)

\* A call that touches neither the clock nor the store.
Respond(S, tool, arg, frame, lines, raced, ghost) ==
    /\ Responded(S, tool, arg, frame, lines, raced, ghost)
    /\ UNCHANGED <<now, call, tlog, auxVars>>

NoGhost == [blocked |-> FALSE, spawned |-> FALSE, registered |-> FALSE, timed_out |-> FALSE,
            reset_from |-> "none", swept_timeout |-> FALSE]

\* Whether the sweep of a call that finds the state S finalizes a timed-out task.
SweepsTimeout(S) ==
    \E id \in DOMAIN S.tasks :
        /\ S.tasks[id].status = "running"
        /\ S.procs[id].state = "exited"
        /\ S.procs[id].result.timed_out

\* The Executor exits: the stdout thread is joined (what the command wrote is
\* in the pipe), the meta file is written (or not, when there is no result
\* to read), the process ends.
ProcExit(p, result) ==
    [p EXCEPT !.state = "exited", !.result = result, !.meta = (result # NoResult),
              !.pipe = @ + p.out_cmd, !.out_cmd = 0]

\* Whether the breaker is Open with the recovery timeout not yet passed.
BreakerBlocks(b, t) ==
    b.state = "Open" /\ \A o \in b.opened_at : t - o <= b.recovery_timeout

\* tools/call zsh, with pty drawn from `ptys` and the Executor's progress during
\* the yield_after sleep from `outcomes`
Zsh(ptys, outcomes) ==
    \E order \in Orders(St), command \in Hashes, use_pty \in ptys, how \in outcomes :
        LET S1 == check_and_finalize_background_tasks(St, order, now)
            r == handle_zsh(S1, command, use_pty, how, now)
            d == prepend_events(r.S)
        IN  /\ r.S.next_id <= MaxTasks
            /\ Respond(d.S, "zsh", 0, r.frame, d.lines, 0,
                       [ blocked |-> BreakerBlocks(cb, now), spawned |-> r.spawned,
                         registered |-> DOMAIN r.S.tasks # DOMAIN S1.tasks,
                         timed_out |-> /\ r.spawned
                                       /\ how.kind = "exited"
                                       /\ how.result.timed_out,
                         reset_from |-> IF resp.tool = "zsh_neverhang_reset"
                                        THEN resp.reset_from ELSE "none",
                         swept_timeout |-> SweepsTimeout(St) ])

\* tools/call zsh_poll; the Executor of the polled task may exit with `race`
\* between the sweep and the handler's own try_wait
CallPoll ==
    \E order \in Orders(St), task_id \in TaskIds, race \in {NoResult} \cup ExecResults :
        LET S1 == check_and_finalize_background_tasks(St, order, now)
            racing == /\ race # NoResult
                      /\ task_id \in DOMAIN S1.tasks
                      /\ S1.procs[task_id].state = "running"
            S2 == IF racing
                  THEN [S1 EXCEPT !.procs[task_id] = ProcExit(@, race)]
                  ELSE S1
            r == handle_poll(S2, task_id, now)
            d == prepend_events(r.S)
        IN  /\ race # NoResult => racing
            /\ Respond(d.S, "zsh_poll", task_id, r.frame, d.lines,
                       IF racing THEN task_id ELSE 0,
                       [ NoGhost EXCEPT !.timed_out =
                            /\ task_id \in DOMAIN S2.tasks
                            /\ S2.procs[task_id].result.timed_out ])

\* tools/call zsh_send
CallSend ==
    \E order \in Orders(St), task_id \in TaskIds, input \in Inputs :
        LET S1 == check_and_finalize_background_tasks(St, order, now)
            r == handle_send(S1, task_id, input)
            d == prepend_events(r.S)
        IN  /\ \A id \in DOMAIN r.S.procs : Len(r.S.procs[id].stdin_pipe) <= MaxSends
            /\ Respond(d.S, "zsh_send", task_id, r.frame, d.lines, 0, NoGhost)

\* tools/call zsh_kill
CallKill ==
    \E order \in Orders(St), task_id \in TaskIds :
        LET S1 == check_and_finalize_background_tasks(St, order, now)
            r == handle_kill(S1, task_id)
            d == prepend_events(r.S)
        IN  Respond(d.S, "zsh_kill", task_id, r.frame, d.lines, 0, NoGhost)

\* tools/call zsh_health; zsh_tasks, zsh_alan_stats, zsh_alan_query and
\* zsh_neverhang_status read the same way and change nothing either
CallReadOnly ==
    \E order \in Orders(St) :
        LET S1 == check_and_finalize_background_tasks(St, order, now)
            d == prepend_events(S1)
        IN  Respond(d.S, "zsh_health", 0, text_content("status"), d.lines, 0, NoGhost)

\* tools/call zsh_neverhang_reset
CallNeverhangReset ==
    \E order \in Orders(St) :
        LET S1 == check_and_finalize_background_tasks(St, order, now)
            r == handle_neverhang_reset(S1)
            d == prepend_events(r.S)
        IN  Respond(d.S, "zsh_neverhang_reset", 0, r.frame, d.lines, 0,
                    [NoGhost EXCEPT !.reset_from = S1.cb.state])

\* tools/call with a name that is no tool: handle_tool_call returns from the
\* match, after the sweep and before prepend_events
CallUnknownTool ==
    \E order \in Orders(St) :
        LET S1 == check_and_finalize_background_tasks(St, order, now)
        IN  Respond(S1, "unknown", 0, error_content("Unknown tool"), <<>>, 0, NoGhost)

\* ------------------------------------------- the Executors and their commands

\* The command of a running task writes a byte to its stdout.
CommandWrite ==
    \E id \in DOMAIN procs :
        /\ procs[id].state = "running"
        /\ id \in DOMAIN tasks
        /\ procs[id].out_cmd + procs[id].pipe + tasks[id].output_buffer < MaxOutput
        /\ procs' = [procs EXCEPT ![id].out_cmd = @ + 1]
        /\ UNCHANGED <<cb, now, call, tlog, tasks, event_queue, next_id, resp, obs, auxVars>>

\* The Executor's stdout thread copies what the command wrote to its own stdout.
ExecPump ==
    \E id \in DOMAIN procs :
        /\ procs[id].state = "running"
        /\ procs[id].out_cmd > 0
        /\ procs' = [procs EXCEPT ![id].pipe = @ + procs[id].out_cmd, ![id].out_cmd = 0]
        /\ UNCHANGED <<cb, now, call, tlog, tasks, event_queue, next_id, resp, obs, auxVars>>

\* The command ends, or its timeout passes: the Executor writes the meta file and exits.
ExecutorExit ==
    \E id \in DOMAIN procs, result \in ExecResults :
        /\ procs[id].state = "running"
        /\ procs' = [procs EXCEPT ![id] = ProcExit(@, result)]
        /\ obs' = [obs EXCEPT ![id].done = TRUE]
        /\ UNCHANGED <<cb, now, call, tlog, tasks, event_queue, next_id, resp, auxVars>>

\* tools/call zsh for a command that prints nothing, without pty
CallZsh == Zsh({FALSE}, QuietOutcomes)

\* tools/call zsh for any command, with or without pty
CallZshIo == Zsh(BOOLEAN, Outcomes)

ServerInit ==
    /\ tasks = EmptyMap
    /\ event_queue = <<>>
    /\ procs = EmptyMap
    /\ next_id = 0
    /\ resp = NoResp
    /\ obs = EmptyMap

\* ------------------------------------------- src/alan

\* The store of a fresh database: init_schema creates the tables empty.
EmptyDb ==
    [ streaks |-> EmptyMap, observations |-> {}, recent_commands |-> {},
      ssh_observations |-> {}, next_row |-> 0 ]

\* No ALAN call has returned yet. `runs` counts, per fingerprint, the successes
\* recorded since its last failure (or since it was first seen); `log` holds the
\* streak updates of the record calls made on concurrent connections, and
\* `stale` says that the last streak write used a row another connection had
\* rewritten (or inserted) since it was read.
NoRec ==
    [ op |-> "none", command |-> <<>>, pipestatus |-> <<>>, success |-> 0,
      updates |-> <<>>, pre |-> EmptyDb, runs |-> EmptyMap, arg |-> <<>>, log |-> <<>>,
      stale |-> FALSE ]

\* A command is a sequence of symbols: a blank, a pipe, a quote, a backslash,
\* or a word without any of these ("a", "b", "ssh", "h").
Blank == " "

RECURSIVE trim_start(_)
trim_start(s) == IF s # <<>> /\ Head(s) = Blank THEN trim_start(Tail(s)) ELSE s

RECURSIVE trim_end(_)
trim_end(s) ==
    IF s # <<>> /\ s[Len(s)] = Blank THEN trim_end(SubSeq(s, 1, Len(s) - 1)) ELSE s

trim(s) == trim_end(trim_start(s))

\* RE_WHITESPACE.replace_all(s, " "): every run of blanks becomes one blank
RECURSIVE collapse_whitespace(_)
collapse_whitespace(s) ==
    IF Len(s) < 2 THEN s
    ELSE IF s[1] = Blank /\ s[2] = Blank THEN collapse_whitespace(Tail(s))
    ELSE <<s[1]>> \o collapse_whitespace(Tail(s))

\* The regex classes \d and \w over the symbols of a command: a symbol that is
\* no blank, pipe, quote, backslash or dash is a word of letters or a digit.
Digits == {"0", "1", "2", "3", "4", "5", "6", "7", "8", "9"}
NonWordChars == {Blank, "|", "'", "\"", "\\", "-"}
IsDigit(ch) == ch \in Digits
IsWordChar(ch) == ch \notin NonWordChars

\* RE_DOUBLE_QUOTED / RE_SINGLE_QUOTED .replace_all: from the left, every span
\* from a quote q to the next q becomes the two quotes alone.
RECURSIVE replace_quoted(_, _)
replace_quoted(s, q) ==
    IF s = <<>> THEN <<>>
    ELSE IF Head(s) = q
         THEN LET closing == { j \in 2..Len(s) : s[j] = q }
              IN  IF closing = {} THEN s
                  ELSE LET j == CHOOSE x \in closing : \A y \in closing : x <= y
                       IN  <<q, q>> \o replace_quoted(SubSeq(s, j + 1, Len(s)), q)
         ELSE <<Head(s)>> \o replace_quoted(Tail(s), q)

\* The last digit of the run of digits that starts at i.
RECURSIVE digit_run_end(_, _)
digit_run_end(s, i) ==
    IF i < Len(s) /\ IsDigit(s[i + 1]) THEN digit_run_end(s, i + 1) ELSE i

\* RE_BARE_NUMBERS.replace_all(s, "N") from position i on: \b\d+\b matches a
\* run of digits with no word character before it and none after it.
RECURSIVE replace_bare_numbers_from(_, _)
replace_bare_numbers_from(s, i) ==
    IF i > Len(s) THEN <<>>
    ELSE IF IsDigit(s[i]) /\ (i = 1 \/ ~IsWordChar(s[i - 1]))
         THEN LET e == digit_run_end(s, i)
              IN  IF e = Len(s) \/ ~IsWordChar(s[e + 1])
                  THEN <<"N">> \o replace_bare_numbers_from(s, e + 1)
                  ELSE SubSeq(s, i, e) \o replace_bare_numbers_from(s, e + 1)
         ELSE <<s[i]>> \o replace_bare_numbers_from(s, i + 1)

replace_bare_numbers(s) == replace_bare_numbers_from(s, 1)

\* hash_command without the replacement of single-quoted spans
hash_command_single_quoted_kept(command) ==
    LET normalized == collapse_whitespace(trim(command))
        double_emptied == replace_quoted(normalized, "\"")
    IN  replace_bare_numbers(double_emptied)

\* hash_command: the normalized command stands for its SHA-256 prefix
hash_command(command) ==
    LET normalized == collapse_whitespace(trim(command))
        double_emptied == replace_quoted(normalized, "\"")
        single_emptied == replace_quoted(double_emptied, "'")
    IN  replace_bare_numbers(single_emptied)

\* split_whitespace: the words of a command
RECURSIVE split_whitespace(_, _)
split_whitespace(s, word) ==
    IF s = <<>> THEN (IF word = <<>> THEN <<>> ELSE <<word>>)
    ELSE IF Head(s) = Blank
         THEN (IF word = <<>> THEN <<>> ELSE <<word>>) \o split_whitespace(Tail(s), <<>>)
         ELSE split_whitespace(Tail(s), Append(word, Head(s)))

\* Whether parse_ssh_command returns Some: the first word is ssh and a host follows.
parse_ssh_command_is_some(command) ==
    LET parts == split_whitespace(command, <<>>)
    IN  Len(parts) >= 2 /\ parts[1] = <<"ssh">>

\* parse_pipeline_from with a scanner that splits at a pipe inside double quotes
RECURSIVE parse_pipeline_from_double_quoted_split(_, _, _, _, _, _, _)
parse_pipeline_from_double_quoted_split(chars, i, current, segments, in_single_quote, in_double_quote, escape_next) ==
    IF i > Len(chars)
    THEN LET final_seg == trim(current)
         IN  IF final_seg # <<>> THEN Append(segments, final_seg) ELSE segments
    ELSE LET ch == chars[i]
         IN  IF escape_next
             THEN parse_pipeline_from_double_quoted_split(chars, i + 1, Append(current, ch), segments,
                                      in_single_quote, in_double_quote, FALSE)
             ELSE IF ch = "\\"
             THEN parse_pipeline_from_double_quoted_split(chars, i + 1, Append(current, ch), segments,
                                      in_single_quote, in_double_quote, TRUE)
             ELSE IF ch = "'" /\ ~in_double_quote
             THEN parse_pipeline_from_double_quoted_split(chars, i + 1, Append(current, ch), segments,
                                      ~in_single_quote, in_double_quote, FALSE)
             ELSE IF ch = "\"" /\ ~in_single_quote
             THEN parse_pipeline_from_double_quoted_split(chars, i + 1, Append(current, ch), segments,
                                      in_single_quote, ~in_double_quote, FALSE)
             ELSE IF ch = "|" /\ ~in_single_quote
             THEN IF i + 1 <= Len(chars) /\ chars[i + 1] = "|"
                  THEN parse_pipeline_from_double_quoted_split(chars, i + 2, current \o <<"|", "|">>, segments,
                                           in_single_quote, in_double_quote, FALSE)
                  ELSE LET segment == trim(current)
                       IN  parse_pipeline_from_double_quoted_split(chars, i + 1, <<>>,
                              IF segment # <<>> THEN Append(segments, segment) ELSE segments,
                              in_single_quote, in_double_quote, FALSE)
             ELSE parse_pipeline_from_double_quoted_split(chars, i + 1, Append(current, ch), segments,
                                      in_single_quote, in_double_quote, FALSE)

\* parse_pipeline from position i on, with the scanner's state
RECURSIVE parse_pipeline_from(_, _, _, _, _, _, _)
parse_pipeline_from(chars, i, current, segments, in_single_quote, in_double_quote, escape_next) ==
    IF i > Len(chars)
    THEN LET final_seg == trim(current)
         IN  IF final_seg # <<>> THEN Append(segments, final_seg) ELSE segments
    ELSE LET ch == chars[i]
         IN  IF escape_next
             THEN parse_pipeline_from(chars, i + 1, Append(current, ch), segments,
                                      in_single_quote, in_double_quote, FALSE)
             ELSE IF ch = "\\"
             THEN parse_pipeline_from(chars, i + 1, Append(current, ch), segments,
                                      in_single_quote, in_double_quote, TRUE)
             ELSE IF ch = "'" /\ ~in_double_quote
             THEN parse_pipeline_from(chars, i + 1, Append(current, ch), segments,
                                      ~in_single_quote, in_double_quote, FALSE)
             ELSE IF ch = "\"" /\ ~in_single_quote
             THEN parse_pipeline_from(chars, i + 1, Append(current, ch), segments,
                                      in_single_quote, ~in_double_quote, FALSE)
             ELSE IF ch = "|" /\ ~in_single_quote /\ ~in_double_quote
             THEN IF i + 1 <= Len(chars) /\ chars[i + 1] = "|"
                  THEN parse_pipeline_from(chars, i + 2, current \o <<"|", "|">>, segments,
                                           in_single_quote, in_double_quote, FALSE)
                  ELSE LET segment == trim(current)
                       IN  parse_pipeline_from(chars, i + 1, <<>>,
                              IF segment # <<>> THEN Append(segments, segment) ELSE segments,
                              in_single_quote, in_double_quote, FALSE)
             ELSE parse_pipeline_from(chars, i + 1, Append(current, ch), segments,
                                      in_single_quote, in_double_quote, FALSE)

parse_pipeline(command) == parse_pipeline_from(command, 1, <<>>, <<>>, FALSE, FALSE, FALSE)

Max(a, b) == IF a >= b THEN a ELSE b
Abs(a) == IF a < 0 THEN -a ELSE a

\* The SELECT of update_streak: the row of command_hash, if there is one.
streak_select(streaks, command_hash) ==
    IF command_hash \in DOMAIN streaks THEN {streaks[command_hash]} ELSE {}

\* mutant of streak_write: a broken streak keeps its count
streak_write_keep_sign(streaks, command_hash, success, existing) ==
    IF existing # {}
    THEN LET e == CHOOSE x \in existing : TRUE
             current == e.current_streak
             n == IF success = e.last_result
                  THEN IF success # 0
                       THEN [ c |-> current + 1,
                              ls |-> Max(e.longest_success_streak, current + 1),
                              lf |-> e.longest_fail_streak ]
                       ELSE [ c |-> current - 1,
                              ls |-> e.longest_success_streak,
                              lf |-> Max(e.longest_fail_streak, Abs(current - 1)) ]
                  ELSE [ c |-> current,
                         ls |-> e.longest_success_streak,
                         lf |-> e.longest_fail_streak ]
         IN  [ streaks |-> Put(streaks, command_hash,
                               [ current_streak |-> n.c, longest_success_streak |-> n.ls,
                                 longest_fail_streak |-> n.lf, last_result |-> success ]),
               ok |-> TRUE ]
    ELSE IF command_hash \in DOMAIN streaks
         THEN [streaks |-> streaks, ok |-> FALSE]
         ELSE [ streaks |-> Put(streaks, command_hash,
                               [ current_streak |-> IF success # 0 THEN 1 ELSE -1,
                                 longest_success_streak |-> IF success # 0 THEN 1 ELSE 0,
                                 longest_fail_streak |-> IF success # 0 THEN 0 ELSE 1,
                                 last_result |-> success ]),
                ok |-> TRUE ]

\* The UPDATE or INSERT of update_streak, chosen by what the SELECT found.
\* INSERT fails on a row that exists by now (command_hash is the primary key);
\* UPDATE of a row that exists always succeeds.
streak_write(streaks, command_hash, success, existing) ==
    IF existing # {}
    THEN LET e == CHOOSE x \in existing : TRUE
             current == e.current_streak
             n == IF success = e.last_result
                  THEN IF success # 0
                       THEN [ c |-> current + 1,
                              ls |-> Max(e.longest_success_streak, current + 1),
                              lf |-> e.longest_fail_streak ]
                       ELSE [ c |-> current - 1,
                              ls |-> e.longest_success_streak,
                              lf |-> Max(e.longest_fail_streak, Abs(current - 1)) ]
                  ELSE [ c |-> IF success # 0 THEN 1 ELSE -1,
                         ls |-> e.longest_success_streak,
                         lf |-> e.longest_fail_streak ]
         IN  [ streaks |-> Put(streaks, command_hash,
                               [ current_streak |-> n.c, longest_success_streak |-> n.ls,
                                 longest_fail_streak |-> n.lf, last_result |-> success ]),
               ok |-> TRUE ]
    ELSE IF command_hash \in DOMAIN streaks
         THEN [streaks |-> streaks, ok |-> FALSE]
         ELSE [ streaks |-> Put(streaks, command_hash,
                               [ current_streak |-> IF success # 0 THEN 1 ELSE -1,
                                 longest_success_streak |-> IF success # 0 THEN 1 ELSE 0,
                                 longest_fail_streak |-> IF success # 0 THEN 0 ELSE 1,
                                 last_result |-> success ]),
                ok |-> TRUE ]

\* update_streak on one connection with no other writer in between
update_streak(streaks, command_hash, success) ==
    streak_write(streaks, command_hash, success,
                 streak_select(streaks, command_hash)).streaks

\* The weight 1.0 of a new observation, in quarters.
FullWeight == 4

insert_observation(d, command_hash, t) ==
    [d EXCEPT !.observations = @ \cup {[ id |-> d.next_row + 1, command_hash |-> command_hash,
                                         weight |-> FullWeight, created_at |-> t ]},
              !.next_row = @ + 1]

\* The row of recent_commands written next to the observation just inserted.
insert_recent(d, command_hash, success, t) ==
    [d EXCEPT !.recent_commands = @ \cup {[ id |-> d.next_row, command_hash |-> command_hash,
                                            timestamp |-> t, success |-> success ]}]

\* record_ssh
record_ssh(d, observation_id, command, t) ==
    IF parse_ssh_command_is_some(command)
    THEN [d EXCEPT !.ssh_observations = @ \cup {[ id |-> observation_id,
                                                  observation_id |-> observation_id,
                                                  weight |-> FullWeight, created_at |-> t ]}]
    ELSE d

\* The loop of record over segments.iter().zip(pipestatus.iter())
RECURSIVE record_segments(_, _, _, _)
record_segments(d, segments, pipestatus, t) ==
    IF segments = <<>> \/ pipestatus = <<>> THEN d
    ELSE LET seg == trim(Head(segments))
             seg_exit == Head(pipestatus)
             seg_hash == hash_command(seg)
             seg_success == IF seg_exit = 0 THEN 1 ELSE 0
             d1 == insert_observation(d, seg_hash, t)
             d2 == insert_recent(d1, seg_hash, seg_success, t)
             d3 == [d2 EXCEPT !.streaks = update_streak(@, seg_hash, seg_success)]
         IN  IF seg = <<>>
             THEN record_segments(d, Tail(segments), Tail(pipestatus), t)
             ELSE record_segments(d3, Tail(segments), Tail(pipestatus), t)

\* mutant of record: segments are recorded for a single command too
record_single_segment(d, command, exit_code, timed_out, pipestatus, t) ==
    LET command_hash == hash_command(command)
        success == IF exit_code = 0 /\ ~timed_out THEN 1 ELSE 0
        d1 == insert_observation(d, command_hash, t)
        observation_id == d1.next_row
        d2 == insert_recent(d1, command_hash, success, t)
        d3 == [d2 EXCEPT !.streaks = update_streak(@, command_hash, success)]
        d4 == record_ssh(d3, observation_id, command, t)
        segments == parse_pipeline(command)
        d5 == IF Len(pipestatus) > 0 /\ Len(segments) = Len(pipestatus)
              THEN record_segments(d4, segments, pipestatus, t)
              ELSE d4
        cutoff == t - RecentKeep
    IN  [d5 EXCEPT !.recent_commands = {r \in @ : ~(r.timestamp < cutoff)}]

\* mutant of record: segments are recorded whatever the length of pipestatus
record_unmatched_segments(d, command, exit_code, timed_out, pipestatus, t) ==
    LET command_hash == hash_command(command)
        success == IF exit_code = 0 /\ ~timed_out THEN 1 ELSE 0
        d1 == insert_observation(d, command_hash, t)
        observation_id == d1.next_row
        d2 == insert_recent(d1, command_hash, success, t)
        d3 == [d2 EXCEPT !.streaks = update_streak(@, command_hash, success)]
        d4 == record_ssh(d3, observation_id, command, t)
        segments == parse_pipeline(command)
        d5 == IF Len(pipestatus) > 1
              THEN record_segments(d4, segments, pipestatus, t)
              ELSE d4
        cutoff == t - RecentKeep
    IN  [d5 EXCEPT !.recent_commands = {r \in @ : ~(r.timestamp < cutoff)}]

\* record, on one connection with no other writer in between
record(d, command, exit_code, timed_out, pipestatus, t) ==
    LET command_hash == hash_command(command)
        success == IF exit_code = 0 /\ ~timed_out THEN 1 ELSE 0
        d1 == insert_observation(d, command_hash, t)
        observation_id == d1.next_row
        d2 == insert_recent(d1, command_hash, success, t)
        d3 == [d2 EXCEPT !.streaks = update_streak(@, command_hash, success)]
        d4 == record_ssh(d3, observation_id, command, t)
        segments == parse_pipeline(command)
        d5 == IF Len(pipestatus) > 1 /\ Len(segments) = Len(pipestatus)
              THEN record_segments(d4, segments, pipestatus, t)
              ELSE d4
        cutoff == t - RecentKeep
    IN  [d5 EXCEPT !.recent_commands = {r \in @ : ~(r.timestamp < cutoff)}]

\* The update_streak calls one record call makes, in order: <<fingerprint, success>>
streak_updates(command, exit_code, timed_out, pipestatus) ==
    LET segments == parse_pipeline(command)
    IN  <<[h |-> hash_command(command),
           success |-> IF exit_code = 0 /\ ~timed_out THEN 1 ELSE 0]>>
        \o (IF Len(pipestatus) > 1 /\ Len(segments) = Len(pipestatus)
            THEN [i \in 1..Len(segments) |->
                     [ h |-> hash_command(segments[i]),
                       success |-> IF pipestatus[i] = 0 THEN 1 ELSE 0 ]]
            ELSE <<>>)

RECURSIVE count_runs(_, _)
count_runs(runs, updates) ==
    IF updates = <<>> THEN runs
    ELSE LET u == Head(updates)
             k == IF u.h \in DOMAIN runs THEN runs[u.h] ELSE 0
         IN  count_runs(Put(runs, u.h, IF u.success # 0 THEN k + 1 ELSE 0), Tail(updates))

\* weight * POWER(0.5, age / half_life), in quarters and rounded down, for an
\* age that is a whole number of half-lives
decay(weight, age, half_life) ==
    LET halvings == age \div half_life
    IN  weight \div (2 ^ halvings)

\* apply_decay
apply_decay(d, half_life, prune_threshold, t) ==
    [d EXCEPT
       !.observations = {[o EXCEPT !.weight = IF o.weight > prune_threshold
                                              THEN decay(o.weight, t - o.created_at, half_life)
                                              ELSE o.weight] : o \in @},
       !.ssh_observations = {[o EXCEPT !.weight = IF o.weight > prune_threshold
                                                  THEN decay(o.weight, t - o.created_at, half_life)
                                                  ELSE o.weight] : o \in @}]

\* The sets of rows SELECT id ... ORDER BY weight DESC LIMIT n may give.
top_by_weight(rows, n) ==
    {K \in SUBSET rows :
        /\ Cardinality(K) = (IF Cardinality(rows) < n THEN Cardinality(rows) ELSE n)
        /\ \A k \in K, o \in rows \ K : k.weight >= o.weight}

\* mutant of prune_keeping: orphaned ssh rows are left in place
prune_keeping_orphans(d, half_life, prune_threshold, keep, t) ==
    LET d1 == apply_decay(d, half_life, prune_threshold, t)
        d2 == [d1 EXCEPT !.observations = {o \in @ : ~(o.weight < prune_threshold)}]
        d3 == [d2 EXCEPT !.observations = {o \in @ : o \in keep}]
    IN  [d3 EXCEPT !.ssh_observations = {o \in @ : ~(o.weight < prune_threshold)}]

\* prune, with `keep` the rows the LIMIT subquery gives
prune_keeping(d, half_life, prune_threshold, keep, t) ==
    LET d1 == apply_decay(d, half_life, prune_threshold, t)
        d2 == [d1 EXCEPT !.observations = {o \in @ : ~(o.weight < prune_threshold)}]
        d3 == [d2 EXCEPT !.observations = {o \in @ : o \in keep}]
        d4 == [d3 EXCEPT !.ssh_observations = {o \in @ : ~(o.weight < prune_threshold)}]
        ids == {o.id : o \in d4.observations}
    IN  [d4 EXCEPT !.ssh_observations = {o \in @ : ~(o.observation_id \notin ids)}]

\* The stores prune may leave.
prune(d, half_life, prune_threshold, max_entries, t) ==
    LET d1 == apply_decay(d, half_life, prune_threshold, t)
        rows == {o \in d1.observations : ~(o.weight < prune_threshold)}
    IN  {prune_keeping(d, half_life, prune_threshold, keep, t) :
            keep \in top_by_weight(rows, max_entries)}

\* ------------------------------------------- the store used by one connection

\* The commands that are recorded.
AlanCommands == { <<"a">>, <<"a", " ", "|", " ", "b">> }

\* The commands recorded into a store that is pruned.
SshCommands == { <<"a">>, <<"ssh", " ", "h">> }

\* The exit codes of a command and of its segments.
ExitCodes == {0, 1}

\* The pipestatus arrays record is given.
Pipestatuses ==
    {<<>>} \cup {<<x>> : x \in ExitCodes} \cup {<<x, y>> : x, y \in ExitCodes}

\* record(...) with any arguments
Record(commands, exit_codes, pipestatuses) ==
    \E command \in commands, exit_code \in exit_codes, timed_out \in BOOLEAN,
       pipestatus \in pipestatuses :
        LET d == record(db, command, exit_code, timed_out, pipestatus, now)
        IN  /\ d.next_row <= MaxRows
            /\ db' = d
            /\ rec' = [ op |-> "record", command |-> command, pipestatus |-> pipestatus,
                        success |-> IF exit_code = 0 /\ ~timed_out THEN 1 ELSE 0,
                        updates |-> streak_updates(command, exit_code, timed_out, pipestatus),
                        pre |-> db,
                        runs |-> count_runs(rec.runs,
                                   streak_updates(command, exit_code, timed_out, pipestatus)),
                        arg |-> <<>>, log |-> rec.log, stale |-> FALSE ]
            /\ UNCHANGED <<breakerVars, serverVars, conns, ex, io>>

CallRecord == Record(AlanCommands, ExitCodes, Pipestatuses)

\* ------------------------------------------- the store used by several Executors

Executors == 1..MaxExecutors

\* The pipestatus arrays the Executors record: none, and one of a pipeline.
RacePipestatuses == {<<>>, <<1, 0>>}

\* DELETE FROM recent_commands WHERE timestamp < cutoff
delete_recent(d, t) ==
    [d EXCEPT !.recent_commands = {r \in @ : ~(r.timestamp < t - RecentKeep)}]

\* Executor e enters record: the statements up to the SELECT of update_streak.
\* Each statement is its own transaction; the two INSERTs touch no row another
\* connection reads, so they are taken together with the SELECT.
RecordBegin(e) ==
    \E command \in AlanCommands, exit_code \in ExitCodes, pipestatus \in RacePipestatuses :
        LET updates == streak_updates(command, exit_code, FALSE, pipestatus)
            u == Head(updates)
            d1 == insert_observation(db, u.h, now)
            d2 == insert_recent(d1, u.h, u.success, now)
        IN  /\ e \notin DOMAIN conns
            /\ d1.next_row + Len(updates) - 1 <= MaxRows
            /\ db' = d2
            /\ conns' = Put(conns, e, [ command |-> command, t |-> now, todo |-> updates,
                                        existing |-> streak_select(d2.streaks, u.h),
                                        first |-> TRUE, observation_id |-> d1.next_row ])
            /\ rec' = [rec EXCEPT !.op = "begin", !.log = Append(@, updates)]
            /\ UNCHANGED <<breakerVars, serverVars, ex, io>>

\* Executor e goes on from the UPDATE / INSERT of update_streak to the next
\* SELECT, or to the end of record. A failed statement ends record with Err.
RecordStep(e) ==
    /\ e \in DOMAIN conns
    /\ LET c == conns[e]
           u == Head(c.todo)
           rest == Tail(c.todo)
           w == streak_write(db.streaks, u.h, u.success, c.existing)
           d1 == [db EXCEPT !.streaks = w.streaks]
           d2 == IF c.first THEN record_ssh(d1, c.observation_id, c.command, c.t) ELSE d1
           d3 == insert_observation(d2, Head(rest).h, c.t)
           d4 == insert_recent(d3, Head(rest).h, Head(rest).success, c.t)
           stale == c.existing # streak_select(db.streaks, u.h)
       IN  IF ~w.ok
           THEN /\ db' = db
                /\ conns' = Del(conns, e)
                /\ rec' = [rec EXCEPT !.op = "record_err", !.stale = stale]
           ELSE IF rest = <<>>
           THEN /\ db' = delete_recent(d2, c.t)
                /\ conns' = Del(conns, e)
                /\ rec' = [rec EXCEPT !.op = "record_ok", !.stale = stale]
           ELSE /\ db' = d4
                /\ conns' = Put(conns, e, [c EXCEPT !.todo = rest, !.first = FALSE,
                                              !.existing = streak_select(d4.streaks, Head(rest).h)])
                /\ rec' = [rec EXCEPT !.op = "step", !.stale = stale]
    /\ UNCHANGED <<breakerVars, serverVars, ex, io>>

\* record(...) of a command that failed
CallRecordSsh == Record(SshCommands, {1}, {<<>>})

\* The thresholds prune is given: below a weight halved once, and above it.
PruneThresholds == {FullWeight \div 4, FullWeight - 1}

\* prune(...) with any arguments
CallPrune ==
    \E half_life \in 1..MaxHalfLife, prune_threshold \in PruneThresholds,
       max_entries \in 1..MaxEntries :
        \E d \in prune(db, half_life, prune_threshold, max_entries, now) :
            /\ db' = d
            /\ rec' = [ op |-> "prune", command |-> <<>>, pipestatus |-> <<>>, success |-> 0,
                        updates |-> <<>>, pre |-> db, runs |-> rec.runs,
                        arg |-> <<prune_threshold, max_entries>>, log |-> rec.log,
                        stale |-> FALSE ]
            /\ UNCHANGED <<breakerVars, serverVars, conns, ex, io>>

\* ------------------------------------------- src/executor.rs, src/main.rs: one Executor run

\* The commands an Executor is given.
ExecCommands ==
    { <<"a">>, <<"a", " ", "|", " ", "b">>, <<"a", "|", "b", ";", "c">> }

\* The part of a command after its last `;`: the last pipeline zsh runs.
RECURSIVE last_pipeline(_, _)
last_pipeline(command, current) ==
    IF command = <<>> THEN current
    ELSE IF Head(command) = ";" THEN last_pipeline(Tail(command), <<>>)
    ELSE last_pipeline(Tail(command), Append(current, Head(command)))

\* What `echo "${pipestatus[*]}" >&3` of wrap_command can write: one exit status
\* for each segment of the last pipeline.
shell_reports(command) ==
    [1..Len(parse_pipeline(last_pipeline(command, <<>>))) -> ExitCodes]

\* mutant of synthesize_pipestatus: an empty pipestatus becomes a success
synthesize_pipestatus_zero(pipestatus, exit_code) ==
    IF pipestatus = <<>> THEN <<0>> ELSE pipestatus

\* parse_pipestatus and the fallback for an empty pipestatus
synthesize_pipestatus(pipestatus, exit_code) ==
    IF pipestatus = <<>> THEN <<exit_code>> ELSE pipestatus

\* No Executor was started. `meta` is the meta file, if there is one; `killed_at`
\* is where the Executor was when it was killed.
NoExec ==
    [ pc |-> "none", pty |-> FALSE, command |-> <<>>, timeout |-> 0, started |-> 0,
      child |-> "none", reported |-> <<>>, status |-> 0, bg |-> "none", holds |-> {},
      in_read |-> TRUE, timed_out |-> FALSE, exit_code |-> 0, pipestatus |-> <<>>,
      meta |-> {}, failed |-> FALSE, write_failed |-> FALSE, killed_at |-> "none" ]

\* run_exec up to the wait loop of execute_pipe / execute_pty: the pipes are
\* made and the shell is spawned, or one of these fails. `bg` says whether the
\* command leaves a background process, inside the shell's process group or
\* outside it, and `holds` which of the output and fd 3 that process keeps open.
RunExec ==
    \E pty \in BOOLEAN, command \in ExecCommands, timeout \in 0..MaxTimeoutSecs,
       spawned \in BOOLEAN, bg \in {"none", "group", "escaped"},
       holds \in SUBSET {"out", "meta"} :
        /\ ex.pc = "none"
        /\ (bg = "none") <=> (holds = {})
        /\ ex' = [NoExec EXCEPT !.pc = IF spawned THEN "wait" ELSE "failed",
                                !.pty = pty, !.command = command, !.timeout = timeout,
                                !.started = now,
                                !.child = IF spawned THEN "running" ELSE "none",
                                !.bg = IF spawned THEN bg ELSE "none",
                                !.holds = IF spawned THEN holds ELSE {},
                                !.failed = ~spawned]
        /\ UNCHANGED <<breakerVars, serverVars, db, rec, conns, io>>

\* The shell ends by itself: after the command and the echo to fd 3, or in an
\* `exit N` of the command before the echo.
ShellExits ==
    /\ ex.child = "running"
    /\ \/ \E r \in shell_reports(ex.command) :
            ex' = [ex EXCEPT !.child = "exited", !.reported = r, !.status = 0]
       \/ \E n \in ExitCodes :
            ex' = [ex EXCEPT !.child = "exited", !.reported = <<>>, !.status = n]
    /\ UNCHANGED <<breakerVars, serverVars, db, rec, conns, io>>

\* The background process the command left ends.
BackgroundExits ==
    /\ ex.bg # "none"
    /\ ex.pc \notin {"none", "exited", "killed"}
    /\ ex' = [ex EXCEPT !.bg = "none", !.holds = {}]
    /\ UNCHANGED <<breakerVars, serverVars, db, rec, conns, io>>

\* The wait loop: the turn that finds the shell ended, or the timeout elapsed.
\* At the timeout the process group (pipe) or the session leader (pty) is
\* killed. In pty mode the master is closed next while the reader thread is
\* inside read() or between two reads.
TryWait ==
    /\ ex.pc = "wait"
    /\ \E in_read \in BOOLEAN :
        /\ ~ex.pty => in_read
        /\ IF ex.child = "exited"
           THEN ex' = [ex EXCEPT !.pc = "join", !.timed_out = FALSE,
                                 !.exit_code = ex.status, !.in_read = in_read]
           ELSE /\ now - ex.started >= ex.timeout
                /\ ex' = [ex EXCEPT !.pc = "join", !.timed_out = TRUE, !.exit_code = -1,
                                    !.child = "killed",
                                    !.bg = IF @ = "group" THEN "none" ELSE @,
                                    !.holds = IF ex.bg = "group" THEN {} ELSE @,
                                    !.in_read = in_read]
    /\ UNCHANGED <<breakerVars, serverVars, db, rec, conns, io>>

\* stdout_handle.join(): the reader thread ends at end of file, which comes
\* when no process holds the write side (the pty slave) any more, or, in pty
\* mode, at the first read of the closed master.
JoinStdout ==
    /\ ex.pc = "join"
    /\ \/ ~(ex.bg # "none" /\ "out" \in ex.holds)
       \/ ~ex.in_read
    /\ ex' = [ex EXCEPT !.pc = "read_meta"]
    /\ UNCHANGED <<breakerVars, serverVars, db, rec, conns, io>>

\* read_to_string on the fd 3 pipe: returns when no process holds its write
\* side; then the pipestatus is parsed or made from the exit code.
ReadMetaPipe ==
    /\ ex.pc = "read_meta"
    /\ ~(ex.bg # "none" /\ "meta" \in ex.holds)
    /\ LET pipestatus == synthesize_pipestatus(ex.reported, ex.exit_code)
       IN  ex' = [ex EXCEPT !.pc = "write_meta", !.pipestatus = pipestatus,
                            !.exit_code = Last(pipestatus)]
    /\ UNCHANGED <<breakerVars, serverVars, db, rec, conns, io>>

\* run_exec, Ok branch: write_meta, which may fail (the error is only logged)
WriteMeta ==
    /\ ex.pc = "write_meta"
    /\ \E ok \in BOOLEAN :
          ex' = [ex EXCEPT !.pc = "record", !.write_failed = ~ok,
                           !.meta = IF ok THEN {[ pipestatus |-> ex.pipestatus,
                                                  exit_code |-> ex.exit_code,
                                                  timed_out |-> ex.timed_out ]}
                                    ELSE @]
    /\ UNCHANGED <<breakerVars, serverVars, db, rec, conns, io>>

\* run_exec, Ok branch: after the ALAN recording, process::exit(exit_code)
ExitExec ==
    /\ ex.pc = "record"
    /\ ex' = [ex EXCEPT !.pc = "exited"]
    /\ UNCHANGED <<breakerVars, serverVars, db, rec, conns, io>>

\* run_exec, Err branch: a meta file with an empty pipestatus and exit code
\* 127 is written (errors ignored), then process::exit(127)
FailedExit ==
    /\ ex.pc = "failed"
    /\ \E ok \in BOOLEAN :
          ex' = [ex EXCEPT !.pc = "exited", !.exit_code = ExecFailed, !.write_failed = ~ok,
                           !.meta = IF ok THEN {[ pipestatus |-> <<>>, exit_code |-> ExecFailed,
                                                  timed_out |-> FALSE ]}
                                    ELSE @]
    /\ UNCHANGED <<breakerVars, serverVars, db, rec, conns, io>>

\* The Executor is killed from outside (SIGKILL) before it exits.
KillExecutor ==
    /\ ex.pc \notin {"none", "exited", "killed"}
    /\ ex' = [ex EXCEPT !.pc = "killed", !.killed_at = ex.pc]
    /\ UNCHANGED <<breakerVars, serverVars, db, rec, conns, io>>

\* ------------------------------------------- src/serve: the connection (stdin, stdout)

\* The id of a message that has none (a notification).
NoId == 0

\* The methods of the messages a client sends.
Methods == {"ping", "tools/call", "other"}

\* Nothing was read or written yet; BARE_JSON_MODE is false.
NoConn ==
    [ pc |-> "read", bare |-> FALSE, request |-> [id |-> NoId, method |-> "none"],
      n |-> 0, first |-> "none", log |-> <<>> ]

\* read_message for a well-formed message in either framing: a line that
\* starts with `{` switches BARE_JSON_MODE on, a Content-Length header leaves it
\* as it is.
read_message(c, id, method, framing) ==
    [c EXCEPT !.bare = IF framing = "bare" THEN TRUE ELSE @,
              !.request = [id |-> id, method |-> method],
              !.n = @ + 1,
              !.first = IF @ = "none" THEN framing ELSE @,
              !.log = Append(@, [ev |-> "read", id |-> id, n |-> c.n + 1, framing |-> framing])]

\* mutant of is_notification: every message is answered
is_notification_never(request) == FALSE

\* request.id.is_none()
is_notification(request) == request.id = NoId

\* handle_request: the kind of response made for the method
handle_request(method) ==
    IF method \in {"initialize", "tools/list", "tools/call", "ping"} THEN "result" ELSE "error"

\* write_message: the framing is chosen by BARE_JSON_MODE at the time of writing
write_message(c, id, kind) ==
    [c EXCEPT !.log = Append(@, [ev |-> "write", id |-> id, kind |-> kind,
                                 framing |-> IF c.bare THEN "bare" ELSE "framed"])]

\* The loop of run_server reads the next message of the client; one without
\* an id is dropped and the loop reads again.
ServeRead ==
    \E has_id \in BOOLEAN, method \in Methods, framing \in {"bare", "framed"} :
        LET c == read_message(io, IF has_id THEN io.n + 1 ELSE NoId, method, framing)
        IN  /\ io.pc = "read"
            /\ io.n < MaxMessages
            /\ io' = [c EXCEPT !.pc = IF is_notification(c.request) THEN "read" ELSE "handle"]
            /\ UNCHANGED <<breakerVars, serverVars, db, rec, conns, ex>>

\* The loop of run_server answers the request it read: handle_request, then
\* write_message.
ServeRespond ==
    /\ io.pc = "handle"
    /\ io' = [write_message(io, io.request.id, handle_request(io.request.method))
                EXCEPT !.pc = "read"]
    /\ UNCHANGED <<breakerVars, serverVars, db, rec, conns, ex>>

\* read_message returns None (end of input, or a line that is no message):
\* the loop and the server end.
ServeEof ==
    /\ io.pc = "read"
    /\ io' = [io EXCEPT !.pc = "closed"]
    /\ UNCHANGED <<breakerVars, serverVars, db, rec, conns, ex>>

\* The parts of the state outside the server, before anything ran.
AuxInit ==
    /\ db = EmptyDb
    /\ rec = NoRec
    /\ conns = EmptyMap
    /\ ex = NoExec
    /\ io = NoConn

\* ------------------------------------------- the breaker on its own

NoCall == [op |-> "none", pre |-> CircuitBreaker_new(1, 0, 0),
           allowed |-> TRUE, msg |-> "none"]

BreakerInit ==
    /\ \E ft \in 1..MaxThreshold, rt \in 0..MaxRecovery, sw \in 0..MaxWindow :
          cb = CircuitBreaker_new(ft, rt, sw)
    /\ now = 0
    /\ call = NoCall
    /\ tlog = <<>>
    /\ ServerInit
    /\ AuxInit

\* time passes between calls
Tick ==
    /\ now < MaxTime
    /\ now' = now + 1
    /\ call' = NoCall
    /\ UNCHANGED <<cb, tlog>>
    /\ UNCHANGED <<serverVars, auxVars>>

CallRecordTimeout ==
    \E h \in Hashes :
        /\ Len(tlog) < MaxFailures
        /\ cb' = record_timeout(cb, now, h)
        /\ call' = [op |-> "record_timeout", pre |-> cb,
                    allowed |-> TRUE, msg |-> "none"]
        /\ tlog' = Append(tlog, now)
        /\ UNCHANGED now
        /\ UNCHANGED <<serverVars, auxVars>>

CallRecordSuccess ==
    /\ cb' = record_success(cb)
    /\ call' = [op |-> "record_success", pre |-> cb,
                allowed |-> TRUE, msg |-> "none"]
    /\ tlog' = IF cb.state = "HalfOpen" THEN <<>> ELSE tlog
    /\ UNCHANGED now
    /\ UNCHANGED <<serverVars, auxVars>>

CallShouldAllow ==
    LET r == should_allow(cb, now)
    IN  /\ cb' = r.cb
        /\ call' = [op |-> "should_allow", pre |-> cb,
                    allowed |-> r.allowed, msg |-> r.msg]
        /\ UNCHANGED <<now, tlog>>
        /\ UNCHANGED <<serverVars, auxVars>>

CallReset ==
    /\ cb' = reset(cb)
    /\ call' = [op |-> "reset", pre |-> cb,
                allowed |-> TRUE, msg |-> "none"]
    /\ tlog' = <<>>
    /\ UNCHANGED now
    /\ UNCHANGED <<serverVars, auxVars>>

BreakerNext ==
    \/ Tick
    \/ CallRecordTimeout
    \/ CallRecordSuccess
    \/ CallShouldAllow
    \/ CallReset

BreakerSpec == BreakerInit /\ [][BreakerNext]_vars

\* ------------------------------------------- the server

Init ==
    /\ cb = CircuitBreaker_new(FailureThreshold, RecoveryTimeout, SampleWindow)
    /\ now = 0
    /\ call = NoCall
    /\ tlog = <<>>
    /\ ServerInit
    /\ AuxInit

Next ==
    \/ Tick
    \/ CallZsh
    \/ CallPoll
    \/ CallSend
    \/ CallKill
    \/ CallReadOnly
    \/ CallNeverhangReset
    \/ CallUnknownTool
    \/ ExecutorExit

\* The server with its clock and breaker, running commands that print nothing.
Spec == Init /\ [][Next]_vars

IoNext ==
    \/ CallZshIo
    \/ CallPoll
    \/ CallSend
    \/ CallKill
    \/ CallReadOnly
    \/ CommandWrite
    \/ ExecPump
    \/ ExecutorExit

\* The server within one tick of the clock, running commands that print and,
\* with pty, read their stdin.
IoSpec == Init /\ [][IoNext]_vars

\* The Executor's stdout thread is a thread of a live process: it runs when it can.
FairIoSpec == IoSpec /\ WF_vars(ExecPump)

AlanNext ==
    \/ Tick
    \/ CallRecord

\* One connection recording results, as time passes.
AlanSpec == Init /\ [][AlanNext]_vars

AlanRaceNext ==
    \/ \E e \in Executors : RecordBegin(e)
    \/ \E e \in Executors : RecordStep(e)

\* Executors recording into one store, each on its own connection.
AlanRaceSpec == Init /\ [][AlanRaceNext]_vars

ExecNext ==
    \/ Tick
    \/ RunExec
    \/ ShellExits
    \/ BackgroundExits
    \/ TryWait
    \/ JoinStdout
    \/ ReadMetaPipe
    \/ WriteMeta
    \/ ExitExec
    \/ FailedExit
    \/ KillExecutor

\* One run of an Executor and of the command it is given.
ExecSpec == Init /\ [][ExecNext]_vars

\* The Executor's own threads keep running; the shell and the processes it
\* leaves behind end when they choose to.
FairExecSpec ==
    /\ ExecSpec
    /\ WF_vars(TryWait)
    /\ WF_vars(JoinStdout)
    /\ WF_vars(ReadMetaPipe)
    /\ WF_vars(WriteMeta)
    /\ WF_vars(ExitExec)
    /\ WF_vars(FailedExit)

ConnNext ==
    \/ ServeRead
    \/ ServeRespond
    \/ ServeEof

\* One client talking to the server over stdin and stdout.
ConnSpec == Init /\ [][ConnNext]_vars

PruneNext ==
    \/ Tick
    \/ CallRecordSsh
    \/ CallPrune

\* One connection recording results and pruning the store, as time passes.
PruneSpec == Init /\ [][PruneNext]_vars

\* ------------------------------------------- claims about the breaker

\* The last failure_threshold record_timeout calls all lie within sample_window
\* of the call that has just returned.
WindowFull ==
    /\ Len(tlog) >= cb.failure_threshold
    /\ tlog[Len(tlog) - cb.failure_threshold + 1] > now - cb.sample_window

\* C3: once failure_threshold record_timeout calls lie within sample_window the
\* breaker is Open (opened at the time of the last one); should_allow on an Open
\* breaker denies with a message until more than recovery_timeout seconds have
\* passed since it opened, the first should_allow after that allows with the
\* half-open message and leaves the breaker HalfOpen; record_success on a
\* HalfOpen breaker leaves it Closed with no failures.
C3_OpenDenyProbeClose ==
    /\ (call.op = "record_timeout" /\ WindowFull)
          => (cb.state = "Open" /\ cb.opened_at = {now})
    /\ (call.op = "should_allow" /\ call.pre.state = "Open")
          => /\ call.pre.opened_at # {}
             /\ \A o \in call.pre.opened_at :
                   IF now - o > cb.recovery_timeout
                   THEN /\ call.allowed
                        /\ call.msg = "half-open, testing recovery"
                        /\ cb.state = "HalfOpen"
                   ELSE /\ ~call.allowed
                        /\ call.msg = "Circuit OPEN, retry in"
                        /\ cb.state = "Open"
    /\ (call.op = "record_success" /\ call.pre.state = "HalfOpen")
          => (cb.state = "Closed" /\ cb.failures = <<>>)

\* C3 witness: a breaker that opened, was probed after the recovery timeout
\* and has just been closed by record_success.
C3_Witness ==
    /\ call.op = "record_success"
    /\ call.pre.state = "HalfOpen"
    /\ call.pre.failures # <<>>
    /\ cb.state = "Closed"

\* C9: the breaker is Open if and only if opened_at is set.
C9_OpenIffOpenedAt ==
    (cb.state = "Open") <=> (cb.opened_at # {})

\* C10: record_timeout on a HalfOpen breaker leaves it Open.
C10_HalfOpenTimeoutReopens ==
    (call.op = "record_timeout" /\ call.pre.state = "HalfOpen")
        => cb.state = "Open"

\* ------------------------------------------- claims about the server

\* C1: a task that finished while registered as running and has not been the
\* target of a zsh_poll has no [notify] line before the first tool call made
\* after it finished, and exactly one from that call's response on, whatever
\* tool was called.
C1_NotifyInFirstCall ==
    \A id \in DOMAIN obs :
        (obs[id].done /\ ~obs[id].polled)
            => obs[id].notes = (IF obs[id].called THEN 1 ELSE 0)

\* C2: once zsh_poll has been called for a finished task, neither that poll's
\* response nor any later response carries a [notify] line for the task.
C2_PollSuppressesNotify ==
    \A id \in DOMAIN obs : ~obs[id].after_poll

\* C2 witness: a zsh_poll has just answered for a task whose Executor had
\* exited in the background, and no [notify] line for it was ever written.
C2_Witness ==
    /\ resp.tool = "zsh_poll"
    /\ resp.task_id \in DOMAIN obs
    /\ obs[resp.task_id].polled
    /\ obs[resp.task_id].called
    /\ obs[resp.task_id].notes = 0
    /\ resp.frame.status = "completed"
    /\ resp.notify = <<>>

C5_TimedOutIsTimeout ==
    resp.timed_out
        => /\ resp.frame.status = "timeout"
           /\ format_task_output(resp.frame) = "TIMEOUT"

\* C7: after zsh_kill of a task that was in the registry the task is in the
\* registry no more and its Executor has been reaped; zsh_poll, zsh_send and
\* zsh_kill of a task that was killed answer Unknown task.
C7_KillRemovesTask ==
    /\ (resp.tool = "zsh_kill" /\ resp.frame.error # "Unknown task")
          => /\ resp.task_id \notin DOMAIN tasks
             /\ procs[resp.task_id].state = "reaped"
    /\ ( /\ resp.tool \in {"zsh_poll", "zsh_send", "zsh_kill"}
         /\ resp.task_id \in DOMAIN procs \ DOMAIN tasks
         /\ resp.frame.status # "killed" )
          => resp.frame.error = "Unknown task"

\* C8: a task in the registry has status running exactly when its child
\* handle is present, and a task that is not running holds no handle at all.
C8_RunningIffChild ==
    \A id \in DOMAIN tasks :
        /\ (tasks[id].status = "running") <=> tasks[id].child
        /\ tasks[id].status # "running" => (~tasks[id].stdout /\ ~tasks[id].stdin)

\* C8 witness: a task that has left running, by the sweep or by zsh_poll.
C8_Witness ==
    \E id \in DOMAIN tasks :
        /\ tasks[id].status = "completed"
        /\ ~tasks[id].child

\* C6: what zsh_send accepted for a running pty task reaches the stdin of its
\* command, in the order sent, unless the command stops running.
C6_SendReachesCommand ==
    \A id \in TaskIds :
        [](( /\ id \in DOMAIN procs
             /\ procs[id].pty
             /\ procs[id].stdin_pipe # <<>> )
            => <>( /\ id \in DOMAIN procs
                   /\ \/ procs[id].cmd_stdin = procs[id].stdin_pipe
                      \/ procs[id].state # "running" ))

\* Whether the response is a zsh call refused by the breaker.
Refused ==
    /\ resp.tool = "zsh"
    /\ resp.frame.status = "error"
    /\ resp.frame.error \in {"Circuit OPEN, retry in", "Circuit OPEN"}

\* After zsh_neverhang_reset the breaker is Closed with no failures and with
\* opened_at and last_failure unset, and should_allow allows without a message.
ResetClears ==
    resp.tool = "zsh_neverhang_reset"
        => /\ cb.state = "Closed"
           /\ cb.failures = <<>>
           /\ cb.opened_at = {}
           /\ cb.last_failure = {}
           /\ \A t \in now..MaxTime :
                 /\ should_allow(cb, t).allowed
                 /\ should_allow(cb, t).msg = "none"
                 /\ should_allow(cb, t).cb = cb

\* C11 as stated: reset from any state clears the breaker, and the zsh call
\* that follows zsh_neverhang_reset is not refused by the breaker.
C11_ResetThenZshRuns ==
    /\ ResetClears
    /\ (resp.tool = "zsh" /\ resp.reset_from # "none") => ~Refused

\* C11 amended: reset from any state clears the breaker, and the zsh call that
\* follows zsh_neverhang_reset is not refused by the breaker unless its own
\* sweep finalized a task that timed out after the reset.
C11_ResetThenZshRunsUnlessTimeout ==
    /\ ResetClears
    /\ (resp.tool = "zsh" /\ resp.reset_from # "none" /\ ~resp.swept_timeout)
          => ~Refused

\* C11 witness: an Open breaker was reset and the zsh call after it spawned
\* its Executor.
C11_Witness ==
    /\ resp.tool = "zsh"
    /\ resp.reset_from = "Open"
    /\ ~resp.swept_timeout
    /\ resp.spawned

\* The fingerprints whose streak the last record call updated with `success`.
Updated(success) ==
    {rec.updates[i].h : i \in {j \in DOMAIN rec.updates : rec.updates[j].success = success}}

\* C12: after k >= 1 consecutive successful records of a fingerprint its streak
\* row has current_streak = k and longest_success_streak >= k, and a failure
\* recorded after a success sets current_streak = -1 and leaves
\* longest_success_streak as it was.
C12_StreakCountsRuns ==
    rec.op = "record" =>
        /\ \A h \in DOMAIN rec.runs :
              rec.runs[h] >= 1 =>
                 /\ h \in DOMAIN db.streaks
                 /\ db.streaks[h].current_streak = rec.runs[h]
                 /\ db.streaks[h].longest_success_streak >= rec.runs[h]
        /\ \A h \in Updated(0) :
              (h \in DOMAIN rec.pre.streaks /\ rec.pre.streaks[h].last_result = 1) =>
                 /\ db.streaks[h].current_streak = -1
                 /\ db.streaks[h].longest_success_streak
                       = rec.pre.streaks[h].longest_success_streak

\* C13: in every store state, on one connection or several, a streak row's
\* current_streak is positive exactly when last_result is success, negative
\* exactly when last_result is failure, and never 0.
C13_SignMatchesResult ==
    \A h \in DOMAIN db.streaks :
        LET r == db.streaks[h]
        IN  /\ (r.current_streak > 0) <=> (r.last_result = 1)
            /\ (r.current_streak < 0) <=> (r.last_result = 0)
            /\ r.current_streak # 0

\* A streak was broken by a write that used a row read before another
\* connection rewrote it.
C13_Witness ==
    /\ rec.op \in {"record_ok", "step"}
    /\ rec.stale
    /\ \E h \in DOMAIN db.streaks :
          /\ db.streaks[h].current_streak < 0
          /\ db.streaks[h].longest_success_streak >= 1

RECURSIVE apply_updates(_, _)
apply_updates(streaks, updates) ==
    IF updates = <<>> THEN streaks
    ELSE apply_updates(update_streak(streaks, Head(updates).h, Head(updates).success),
                       Tail(updates))

RECURSIVE apply_log(_, _)
apply_log(streaks, log) ==
    IF log = <<>> THEN streaks
    ELSE apply_log(apply_updates(streaks, Head(log)), Tail(log))

\* The streak tables that the record calls of `log`, made one after another in
\* some order on an empty store, leave.
SerialStreaks(log) ==
    LET n == Len(log)
        perms == {q \in [1..n -> 1..n] : \A i, j \in 1..n : i # j => q[i] # q[j]}
    IN  {apply_log(EmptyMap, [i \in 1..n |-> log[q[i]]]) : q \in perms}

\* C14: when all record calls of the Executors have returned, the streak rows
\* are those that the calls leave when made one after another in some order.
C14_NoLostUpdate ==
    (conns = EmptyMap /\ rec.log # <<>>) => db.streaks \in SerialStreaks(rec.log)

\* The rows the last record call added.
NewObservations == db.observations \ rec.pre.observations
NewRecent == db.recent_commands \ rec.pre.recent_commands

\* The number of segments of the command last recorded.
Segments == Len(parse_pipeline(rec.command))

\* C15 as stated: a command of n segments recorded with a pipestatus of length
\* n adds n + 1 rows to observations and n + 1 rows to recent_commands.
C15_SegmentRows ==
    (rec.op = "record" /\ Len(rec.pipestatus) = Segments) =>
        /\ Cardinality(NewObservations) = Segments + 1
        /\ Cardinality(NewRecent) = Segments + 1

\* C15, amended: a command of n >= 2 segments recorded with a pipestatus of
\* length n adds n + 1 rows to each table, one for the full command and one per
\* segment; a command of one segment adds one row to each table.
C15_SegmentRowsOfPipelines ==
    (rec.op = "record" /\ Len(rec.pipestatus) = Segments) =>
        LET added == IF Segments >= 2 THEN Segments + 1 ELSE 1
            hashes == {rec.updates[i].h : i \in DOMAIN rec.updates}
        IN  /\ Cardinality(NewObservations) = added
            /\ Cardinality(NewRecent) = added
            /\ Len(rec.updates) = added
            /\ {o.command_hash : o \in NewObservations} = hashes
            /\ {r.command_hash : r \in NewRecent} = hashes
            /\ hash_command(rec.command) \in hashes

\* A pipeline of two segments was recorded with a pipestatus of two entries.
C15_Witness ==
    /\ rec.op = "record"
    /\ Segments = 2
    /\ Len(rec.pipestatus) = 2
    /\ Cardinality(NewObservations) = 3
    /\ Cardinality(NewRecent) = 3

\* C16: right after prune(half_life, threshold, max_entries) no observation
\* has a weight below the threshold, there are at most max_entries
\* observations, and every ssh_observations row names an observation that exists.
C16_PrunePostconditions ==
    rec.op = "prune" =>
        LET prune_threshold == rec.arg[1]
            max_entries == rec.arg[2]
        IN  /\ \A o \in db.observations : ~(o.weight < prune_threshold)
            /\ Cardinality(db.observations) <= max_entries
            /\ \A x \in db.ssh_observations :
                  x.observation_id \in {o.id : o \in db.observations}

\* prune deleted an observation for the limit and one for its weight, removed
\* an ssh row with it, and kept an ssh row whose observation stayed.
C16_Witness ==
    /\ rec.op = "prune"
    /\ Cardinality(rec.pre.observations) > rec.arg[2]
    /\ \E o \in rec.pre.observations : o.weight < rec.arg[1]
    /\ Cardinality(db.ssh_observations) < Cardinality(rec.pre.ssh_observations)
    /\ db.ssh_observations # {}

\* The Executor is running and the shell has ended or the timeout has elapsed.
ShellEndedOrTimeout ==
    /\ ex.pc \in {"wait", "join", "read_meta", "write_meta", "record"}
    /\ (ex.child # "running" \/ now - ex.started >= ex.timeout)

\* The Executor process has ended.
ExecutorEnded == ex.pc \in {"exited", "killed"}

\* C18: once the shell has ended or the timeout has elapsed, the Executor
\* writes the meta file and exits (or is killed from outside) after finitely
\* many of its own steps, whatever the command left running.
C18_ExecutorTerminates == ShellEndedOrTimeout ~> ExecutorEnded

IsWrite(e) == e.ev = "write"
IsRequest(e) == e.ev = "read" /\ e.id # NoId

\* The responses written so far and the requests with an id read so far.
Responses == SelectSeq(io.log, IsWrite)
Requests == SelectSeq(io.log, IsRequest)

\* C19: the response to a request with an id is written before the next
\* message is read; responses come in the order of the requests, one for each
\* request with an id, and none for a message without an id.
C19_OneMessageAtATime ==
    /\ \A i \in 1..Len(io.log) - 1 :
          IsRequest(io.log[i]) => IsWrite(io.log[i + 1]) /\ io.log[i + 1].id = io.log[i].id
    /\ \A i \in 1..Len(io.log) :
          IsWrite(io.log[i]) =>
             i > 1 /\ IsRequest(io.log[i - 1]) /\ io.log[i - 1].id = io.log[i].id
    /\ \A i \in 1..Len(Responses) : Responses[i].id = Requests[i].id
    /\ io.pc # "handle" => Len(Responses) = Len(Requests)
    /\ io.pc = "handle" => Len(Responses) + 1 = Len(Requests)

\* Two requests were answered and a notification was read between them.
C19_Witness ==
    /\ Len(Responses) >= 2
    /\ \E i \in 2..Len(io.log) - 1 :
          /\ io.log[i].ev = "read"
          /\ io.log[i].id = NoId
          /\ IsWrite(io.log[i - 1])

\* C20: every response on the connection is written in the framing of the first
\* message received, whatever the framing of later messages.
C20_FramingSetOnce ==
    \A i \in 1..Len(Responses) : Responses[i].framing = io.first

\* ------------------------------------------- the server and the Executors with a store that may fail

\* How the store behaves for one process during one call: it works, open_db
\* returns Err, or open_db works and every statement returns Err.
StoreModes == {"ok", "open_fails", "statement_fails"}

\* alan_streak_threshold
StreakThreshold == 1

\* The rows the Executors may add to the observations table.
MaxStoreRows == 2

\* get_pre_insights: the streak line and the pattern-history line. A failed
\* query is a row that is not there (.ok() gives None), so the pattern counts
\* as new. The retry, similar-command, ssh and manopt lines are left out.
get_pre_insights(d, command_hash, statements_ok) ==
    LET streak == IF statements_ok THEN streak_select(d.streaks, command_hash) ELSE {}
        seen == statements_ok /\ \E o \in d.observations : o.command_hash = command_hash
    IN  (IF \E e \in streak : e.current_streak >= StreakThreshold
         THEN <<"Streak">>
         ELSE IF \E e \in streak : e.current_streak <= -StreakThreshold
         THEN <<"Failing streak">>
         ELSE <<>>)
        \o (IF seen THEN <<>> ELSE <<"New pattern">>)

\* The pre-insights of handle_zsh: none when open_db fails.
pre_insights(d, command, store) ==
    IF store = "open_fails" THEN <<>>
    ELSE get_pre_insights(d, hash_command(command), store = "ok")

\* The "maybe prune" block of finalize_task: skipped when open_db fails; with
\* failing statements the last_prune query gives None, prune runs and each of
\* its statements fails. `due` says whether the prune interval has passed.
maybe_prune(d, store, due, t) ==
    IF store = "ok" /\ due
    THEN prune(d, MaxHalfLife, FullWeight \div 4, MaxEntries, t)
    ELSE {d}

\* mutant of run_exec: a store error is taken for a failure of the Executor
run_exec_store_fatal(d, command, exec_result, store, t) ==
    IF store = "ok"
    THEN [ meta |-> exec_result,
           d |-> record(d, command, Last(exec_result.pipestatus), exec_result.timed_out,
                        exec_result.pipestatus, t) ]
    ELSE [meta |-> NoResult, d |-> d]

\* run_exec after execute_pipe / execute_pty returned Ok(exec_result): the meta
\* file is written, then the run is recorded; an error of open_db or of record
\* (taken here at its first statement) is logged and nothing else.
run_exec(d, command, exec_result, store, t) ==
    [ meta |-> exec_result,
      d |-> IF store = "ok"
            THEN record(d, command, Last(exec_result.pipestatus), exec_result.timed_out,
                        exec_result.pipestatus, t)
            ELSE d ]

\* Whether the sweep that led from S0 to S1 finalized a task.
Swept(S0, S1) ==
    \E id \in DOMAIN S0.tasks : S0.tasks[id].status # S1.tasks[id].status

\* What is kept of a call that used the store: how the store behaved for the
\* server, whether it failed for the Executor, the pre-insights the server got, and the frame
\* and the spawn the same call gives with a store that works.
StoreCall(tool, server_store, executor_store, insights, frame_ok, spawned_ok) ==
    [ NoRec EXCEPT !.op = tool, !.pre = db,
                   !.arg = [ server_store |-> server_store,
                             executor_failed |-> executor_store # "ok",
                             insights |-> insights, frame_ok |-> frame_ok,
                             spawned_ok |-> spawned_ok ] ]

\* The state after a call and the response written for it; what the caller has
\* been shown over the calls is not kept here.
StoreRespond(S, tool, arg, frame, lines, spawned) ==
    /\ tasks' = S.tasks
    /\ event_queue' = S.event_queue
    /\ procs' = S.procs
    /\ cb' = S.cb
    /\ next_id' = S.next_id
    /\ resp' = [ NoResp EXCEPT !.tool = tool, !.task_id = arg, !.frame = frame,
                                !.notify = lines, !.spawned = spawned ]
    /\ UNCHANGED <<now, call, tlog, obs, conns, ex, io>>

\* The commands run against the store end before their timeout.
StoreResults == { r \in ExecResults : ~r.timed_out }
StoreOutcomes == { how \in QuietOutcomes : ~how.result.timed_out }

\* tools/call zsh with a store in any mode; the Executor, when it exits within
\* yield_after, has recorded its run before the server finalizes it
CallZshStore ==
    \E order \in Orders(St), command \in Hashes, how \in StoreOutcomes,
       server_store \in StoreModes, executor_store \in StoreModes, due \in BOOLEAN :
        LET S1 == check_and_finalize_background_tasks(St, order, now)
            x == run_exec(db, <<command>>, how.result, executor_store, now)
            how1 == IF how.kind = "exited" THEN [how EXCEPT !.result = x.meta] ELSE how
            r == handle_zsh(S1, command, FALSE, how1, now)
            r_ok == handle_zsh(S1, command, FALSE, how, now)
            d == prepend_events(r.S)
            ran == r.spawned /\ how.kind = "exited"
            d1 == IF ran THEN x.d ELSE db
        IN  /\ r.S.next_id <= MaxTasks
            /\ d1.next_row <= MaxStoreRows
            /\ how.kind # "exited" => executor_store = "ok"
            /\ ~(ran \/ Swept(St, S1)) => ~due
            /\ server_store # "ok" => ~due
            /\ StoreRespond(d.S, "zsh", 0, r.frame, d.lines, r.spawned)
            /\ db' \in (IF ran \/ Swept(St, S1)
                        THEN maybe_prune(d1, server_store, due, now) ELSE {d1})
            /\ rec' = StoreCall("zsh", server_store, executor_store,
                                IF r.spawned THEN pre_insights(db, <<command>>, server_store)
                                ELSE <<>>,
                                r_ok.frame, r_ok.spawned)

\* The command of a background task ends, or its timeout passes: the Executor
\* writes the meta file, records the run in a store in any mode and exits.
ExecutorExitStore ==
    \E id \in DOMAIN procs, result \in StoreResults, executor_store \in StoreModes :
        LET x == run_exec(db, <<tasks[id].command>>, result, executor_store, now)
        IN  /\ procs[id].state = "running"
            /\ id \in DOMAIN tasks
            /\ x.d.next_row <= MaxStoreRows
            /\ procs' = [procs EXCEPT ![id] = ProcExit(@, x.meta)]
            /\ db' = x.d
            /\ conns' = Put(conns, id, [exec_result |-> result])
            /\ rec' = [NoRec EXCEPT !.op = "exit"]
            /\ UNCHANGED <<cb, now, call, tlog, tasks, event_queue, next_id, resp, obs, ex, io>>

\* tools/call zsh_poll with a store in any mode
CallPollStore ==
    \E order \in Orders(St), task_id \in TaskIds, server_store \in StoreModes, due \in BOOLEAN :
        LET S1 == check_and_finalize_background_tasks(St, order, now)
            r == handle_poll(S1, task_id, now)
            d == prepend_events(r.S)
        IN  /\ ~Swept(St, S1) => (server_store = "ok" /\ ~due)
            /\ server_store # "ok" => ~due
            /\ StoreRespond(d.S, "zsh_poll", task_id, r.frame, d.lines, FALSE)
            /\ db' \in (IF Swept(St, S1) THEN maybe_prune(db, server_store, due, now)
                        ELSE {db})
            /\ rec' = [NoRec EXCEPT !.op = "zsh_poll"]

\* The calls are made within one tick of the clock.
StoreNext ==
    \/ CallZshStore
    \/ ExecutorExitStore
    \/ CallPollStore

StoreSpec == Init /\ [][StoreNext]_vars

MetaOutcomes ==
    { how \in Outcomes : ~how.result.timed_out }
      \cup {[kind |-> "exited", result |-> NoResult, n |-> 0]}

\* What an Executor that ends without a timeout leaves: a meta file with the
\* pipestatus of the command, or none that can be read.
MetaResults == { r \in ExecResults : ~r.timed_out } \cup {NoResult}

\* tools/call zsh, with pty drawn from `ptys` and the Executor's progress during
\* the yield_after sleep from `outcomes`; the call and its outcome are kept
ZshKept(ptys, outcomes) ==
    \E order \in Orders(St), command \in Hashes, use_pty \in ptys, how \in outcomes :
        LET S1 == check_and_finalize_background_tasks(St, order, now)
            r == handle_zsh(S1, command, use_pty, how, now)
            d == prepend_events(r.S)
        IN  /\ r.S.next_id <= MaxTasks
            /\ StoreRespond(d.S, "zsh", 0, r.frame, d.lines, r.spawned)
            /\ rec' = [NoRec EXCEPT !.op = "zsh", !.arg = how]
            /\ UNCHANGED db

CallZshMeta == ZshKept({FALSE}, MetaOutcomes)

\* The command of a background task ends, or its timeout passes, and the
\* Executor exits, with or without a meta file the server can read.
ExecutorExits(results) ==
    \E id \in DOMAIN procs, result \in results :
        /\ procs[id].state = "running"
        /\ id \in DOMAIN tasks
        /\ procs' = [procs EXCEPT ![id] = ProcExit(@, result)]
        /\ rec' = [NoRec EXCEPT !.op = "exit"]
        /\ UNCHANGED <<cb, now, call, tlog, tasks, event_queue, next_id, resp, obs,
                       db, conns, ex, io>>

ExecutorExitMeta == ExecutorExits(MetaResults)

\* tools/call zsh_poll; the Executor of the polled task may exit between the
\* sweep and the handler's own try_wait
CallPollMeta ==
    \E order \in Orders(St), task_id \in TaskIds, race \in BOOLEAN,
       result \in MetaResults :
        LET S1 == check_and_finalize_background_tasks(St, order, now)
            racing == /\ race
                      /\ task_id \in DOMAIN S1.tasks
                      /\ S1.procs[task_id].state = "running"
            S2 == IF racing
                  THEN [S1 EXCEPT !.procs[task_id] = ProcExit(@, result)]
                  ELSE S1
            r == handle_poll(S2, task_id, now)
            d == prepend_events(r.S)
        IN  /\ race = racing
            /\ ~race => result = NoResult
            /\ StoreRespond(d.S, "zsh_poll", task_id, r.frame, d.lines, FALSE)
            /\ rec' = [NoRec EXCEPT !.op = IF racing THEN "zsh_poll finalized" ELSE "zsh_poll"]
            /\ UNCHANGED db

\* The calls are made within one tick of the clock.
MetaNext ==
    \/ CommandWrite
    \/ ExecPump
    \/ CallZshMeta
    \/ ExecutorExitMeta
    \/ CallPollMeta

MetaSpec == Init /\ [][MetaNext]_vars

\* Whether the Executor of task id has ended and been finalized without a
\* meta file the server could read.
FinalizedUnread(id) ==
    /\ id \in DOMAIN tasks
    /\ tasks[id].status = "completed"
    /\ procs[id].state = "reaped"
    /\ procs[id].result = NoResult

\* C22: a task finalized with its meta file missing or unreadable is reported
\* as completed with exit code 0: the frame the zsh call or the poll that
\* finalizes it returns is a completed frame with pipestatus [0], the frame of
\* a later poll shows COMPLETED, and its [notify] line carries exit code 0;
\* all the command wrote is in the task's output buffer, which the frame shows.
C22_MissingMetaIsExitZero ==
    /\ (rec.op = "zsh" /\ rec.arg.kind = "exited" /\ rec.arg.result = NoResult /\ resp.spawned) =>
          /\ resp.frame.status = "completed"
          /\ resp.frame.pipestatus = <<0>>
    /\ \A id \in DOMAIN procs :
          FinalizedUnread(id) =>
             /\ procs[id].out_cmd = 0 /\ procs[id].pipe = 0
             /\ (resp.tool = "zsh_poll" /\ resp.task_id = id) =>
                   /\ resp.frame.status = "completed"
                   /\ format_task_output(resp.frame) = "COMPLETED"
                   /\ rec.op = "zsh_poll finalized" => resp.frame.pipestatus = <<0>>
             /\ \A i \in 1..Len(resp.notify) :
                   resp.notify[i].task_id = id => resp.notify[i].exit_code = 0
             /\ \A i \in 1..Len(event_queue) :
                   event_queue[i].task_id = id => event_queue[i].exit_code = 0

\* A poll found that the Executor had exited without a readable meta file and
\* returned the completed frame.
C22_Witness ==
    /\ rec.op = "zsh_poll finalized"
    /\ FinalizedUnread(resp.task_id)
    /\ tasks[resp.task_id].output_buffer > 0
    /\ resp.frame.pipestatus = <<0>>

\* ------------------------------------------- zsh_send and Executors that exit under it

\* tools/call zsh, with or without pty
CallZshSend == ZshKept(BOOLEAN, QuietOutcomes)

\* The command of a background task ends, or its timeout passes.
ExecutorExitSend == ExecutorExits(ExecResults)

\* tools/call zsh_send; the Executor of the task may exit between the sweep and
\* the handler's write. Kept of the call: what the handler found (the task in
\* the registry, its status running, its stdin handle, its Executor alive) and
\* what it did (the bytes it added to the pipe; whether it left the registry,
\* the breaker and the event queue as they were).
CallSendRace ==
    \E order \in Orders(St), task_id \in TaskIds, input \in Inputs, race \in BOOLEAN,
       result \in ExecResults :
        LET S1 == check_and_finalize_background_tasks(St, order, now)
            known == task_id \in DOMAIN S1.tasks
            racing == race /\ known /\ S1.procs[task_id].state = "running"
            S2 == IF racing
                  THEN [S1 EXCEPT !.procs[task_id] = ProcExit(@, result)]
                  ELSE S1
            r == handle_send(S2, task_id, input)
            d == prepend_events(r.S)
            before == IF known THEN S2.procs[task_id].stdin_pipe ELSE <<>>
            after == IF known THEN r.S.procs[task_id].stdin_pipe ELSE <<>>
        IN  /\ race = racing
            /\ ~race => result = CHOOSE x \in ExecResults : TRUE
            /\ Len(after) <= MaxSends
            /\ StoreRespond(d.S, "zsh_send", task_id, r.frame, d.lines, FALSE)
            /\ rec' = [ NoRec EXCEPT
                          !.op = "zsh_send",
                          !.arg = [ input |-> input,
                                    registered |-> known,
                                    running |-> known /\ S2.tasks[task_id].status = "running",
                                    stdin |-> known /\ S2.tasks[task_id].stdin,
                                    alive |-> known /\ S2.procs[task_id].state = "running",
                                    written |-> SubSeq(after, Len(before) + 1, Len(after)),
                                    kept |-> /\ r.S.tasks = S2.tasks
                                             /\ r.S.cb = S2.cb
                                             /\ r.S.event_queue = S2.event_queue
                                             /\ r.S.next_id = S2.next_id ] ]
            /\ UNCHANGED db

\* The calls are made within one tick of the clock.
SendNext ==
    \/ CallZshSend
    \/ ExecutorExitSend
    \/ CallSendRace

SendSpec == Init /\ [][SendNext]_vars

\* The task is in the registry, running, and has a stdin handle.
SendAccepted == rec.arg.registered /\ rec.arg.running /\ rec.arg.stdin

PolledRunning(id) ==
    /\ resp'.tool = "zsh_poll"
    /\ resp'.task_id = id
    /\ resp'.frame.status = "running"
    /\ resp' # resp \/ tasks' # tasks

\* C24: a zsh_poll that returns a running frame drains the pipe into the
\* output buffer, reports as new_bytes the length of the buffer minus
\* last_poll_offset and sets last_poll_offset to that length; last_poll_offset
\* never exceeds the length of the buffer, and a poll that finds no new output
\* since the last one reports new_bytes = 0.
C24_NewBytesIsDelta ==
    /\ [](\A id \in DOMAIN tasks : tasks[id].last_poll_offset <= tasks[id].output_buffer)
    /\ [][\A id \in TaskIds :
             PolledRunning(id) =>
                /\ id \in DOMAIN tasks
                /\ tasks'[id].output_buffer = tasks[id].output_buffer + procs[id].pipe
                /\ resp'.frame.new_bytes = tasks'[id].output_buffer - tasks[id].last_poll_offset
                /\ tasks'[id].last_poll_offset = tasks'[id].output_buffer
                /\ (tasks'[id].output_buffer = tasks[id].last_poll_offset
                       => resp'.frame.new_bytes = 0)]_vars

\* A poll of a running task whose output had all been reported by an earlier
\* poll returned new_bytes = 0.
C24_Witness ==
    /\ resp.tool = "zsh_poll"
    /\ resp.frame.status = "running"
    /\ resp.frame.new_bytes = 0
    /\ resp.task_id \in DOMAIN tasks
    /\ tasks[resp.task_id].last_poll_offset > 0

\* ------------------------------------------- several background tasks and their [notify] lines

\* The background tasks that are started.
MaxNotifyTasks == 2

NotifyTaskIds == 1..MaxNotifyTasks

\* The ids, in the order of the sweep, of the tasks the sweep finalizes.
SweptIds(S, order) ==
    SelectSeq(order, LAMBDA id : S.tasks[id].child /\ try_wait_done(S.procs[id]))

\* The state after a call of `tool` whose sweep visited the running tasks in
\* `order` and led from the present state to S1, and whose handler led to
\* r.S and returned r.frame; `drains` says whether prepend_events is reached.
\* Kept of the call: the queue it found, the tasks its sweep finalized, the
\* queue after the sweep, the task it polled. conns counts, per task, the
\* [notify] lines written for it over all responses (up to 2).
NotifyCall(tool, task_id, order, S1, r, drains) ==
    LET d == IF drains THEN prepend_events(r.S) ELSE [S |-> r.S, lines |-> <<>>]
    IN  /\ tasks' = d.S.tasks
        /\ event_queue' = d.S.event_queue
        /\ procs' = d.S.procs
        /\ cb' = d.S.cb
        /\ next_id' = d.S.next_id
        /\ resp' = [ NoResp EXCEPT !.tool = tool, !.task_id = task_id, !.frame = r.frame,
                                   !.notify = d.lines ]
        /\ rec' = [ NoRec EXCEPT
                      !.op = tool,
                      !.arg = [ found |-> event_queue, swept |-> SweptIds(St, order),
                                queued |-> S1.event_queue, polled |-> task_id ] ]
        /\ conns' = [id \in DOMAIN d.S.tasks |->
                        UpTo2((IF id \in DOMAIN conns THEN conns[id] ELSE 0)
                              + Len(SelectSeq(d.lines, LAMBDA ev : ev.task_id = id)))]
        /\ UNCHANGED <<now, call, tlog, obs, db, ex, io>>

\* tools/call zsh for a command that runs on in the background
CallZshNotify ==
    \E order \in Orders(St), command \in Hashes :
        LET S1 == check_and_finalize_background_tasks(St, order, now)
            r == handle_zsh(S1, command, FALSE,
                            [kind |-> "running", result |-> NoResult, n |-> 0], now)
        IN  /\ r.S.next_id <= MaxNotifyTasks
            /\ NotifyCall("zsh", 0, order, S1, r, TRUE)

\* The command of a background task ends, or its timeout passes.
ExecutorExitNotify ==
    \E id \in DOMAIN procs, result \in ExecResults :
        /\ procs[id].state = "running"
        /\ id \in DOMAIN tasks
        /\ procs' = [procs EXCEPT ![id] = ProcExit(@, result)]
        /\ UNCHANGED <<cb, now, call, tlog, tasks, event_queue, next_id, resp, obs,
                       db, rec, conns, ex, io>>

\* tools/call zsh_poll
CallPollNotify ==
    \E order \in Orders(St), task_id \in NotifyTaskIds :
        LET S1 == check_and_finalize_background_tasks(St, order, now)
        IN  NotifyCall("zsh_poll", task_id, order, S1, handle_poll(S1, task_id, now), TRUE)

\* tools/call zsh_health, or another tool that only reads
CallReadOnlyNotify ==
    \E order \in Orders(St) :
        LET S1 == check_and_finalize_background_tasks(St, order, now)
        IN  NotifyCall("zsh_health", 0, order, S1,
                       [S |-> S1, frame |-> text_content("status")], TRUE)

\* tools/call with a name that is no tool
CallUnknownToolNotify ==
    \E order \in Orders(St) :
        LET S1 == check_and_finalize_background_tasks(St, order, now)
        IN  NotifyCall("unknown", 0, order, S1,
                       [S |-> S1, frame |-> error_content("Unknown tool")], FALSE)

\* The calls are made within one tick of the clock.
NotifyNext ==
    \/ CallZshNotify
    \/ ExecutorExitNotify
    \/ CallPollNotify
    \/ CallReadOnlyNotify
    \/ CallUnknownToolNotify

NotifySpec == Init /\ [][NotifyNext]_vars

\* The ids of the tasks the events of a queue name, in order.
EventIds(queue) == [i \in 1..Len(queue) |-> queue[i].task_id]

\* The sweep of the last call appended to the queue one event for each task it
\* finalized, in the order it finalized them, with the exit code of the task.
SweepEnqueued ==
    /\ EventIds(rec.arg.queued) = EventIds(rec.arg.found) \o rec.arg.swept
    /\ SubSeq(rec.arg.queued, 1, Len(rec.arg.found)) = rec.arg.found
    /\ \A i \in 1..Len(rec.arg.queued) :
          LET ev == rec.arg.queued[i]
          IN  ev.exit_code = Last(procs[ev.task_id].result.pipestatus)

MaxPipelineLen == 5
\* A word, a blank, a pipe, the two quotes, a backslash.
PipelineSymbols == {"a", Blank, "|", "'", "\"", "\\"}
PipelineCommands == UNION { [1..n -> PipelineSymbols] : n \in 0..MaxPipelineLen }

\* The one call of parse_pipeline of a run; rec keeps the command and the
\* segments returned.
ParsePipeline ==
    /\ rec.op = "none"
    /\ \E command \in PipelineCommands :
          rec' = [NoRec EXCEPT !.op = "parse_pipeline", !.command = command,
                               !.arg = parse_pipeline(command)]
    /\ UNCHANGED <<breakerVars, serverVars, db, conns, ex, io>>

PipelineNext == ParsePipeline

PipelineSpec == Init /\ [][PipelineNext]_vars

\* The character at i follows a backslash that was not itself escaped.
RECURSIVE Escaped(_, _)
Escaped(chars, i) == i > 1 /\ chars[i - 1] = "\\" /\ ~Escaped(chars, i - 1)

\* The quotes that are open where the character at i stands.
RECURSIVE QuoteAt(_, _)
QuoteAt(chars, i) ==
    IF i = 1 THEN "none"
    ELSE LET q == QuoteAt(chars, i - 1)
             ch == chars[i - 1]
         IN  IF Escaped(chars, i - 1) THEN q
             ELSE IF ch = "'" /\ q # "double" THEN (IF q = "single" THEN "none" ELSE "single")
             ELSE IF ch = "\"" /\ q # "single" THEN (IF q = "double" THEN "none" ELSE "double")
             ELSE q

\* A pipe outside single quotes, outside double quotes and not escaped.
BarePipe(chars, i) ==
    chars[i] = "|" /\ ~Escaped(chars, i) /\ QuoteAt(chars, i) = "none"

\* The place of the bare pipe at i in its run of adjacent pipes.
RECURSIVE PipeRun(_, _)
PipeRun(chars, i) ==
    IF i > 1 /\ BarePipe(chars, i - 1) THEN PipeRun(chars, i - 1) + 1 ELSE 1

\* The bare pipe at i is the first or the second pipe of a `||`, the pairs of
\* a run being formed from its left end.
InOrPair(chars, i) ==
    \/ PipeRun(chars, i) % 2 = 0
    \/ i < Len(chars) /\ chars[i + 1] = "|"

SplitPoints(chars) ==
    { i \in 1..Len(chars) : BarePipe(chars, i) /\ ~InOrPair(chars, i) }

\* The pieces between the split points, from position `from` on.
RECURSIVE PiecesFrom(_, _)
PiecesFrom(chars, from) ==
    LET later == { s \in SplitPoints(chars) : s >= from }
    IN  IF later = {} THEN << SubSeq(chars, from, Len(chars)) >>
        ELSE LET s == CHOOSE x \in later : \A y \in later : x <= y
             IN  << SubSeq(chars, from, s - 1) >> \o PiecesFrom(chars, s + 1)

NonEmptyPiece(piece) == piece # <<>>

ExpectedSegments(chars) ==
    LET pieces == PiecesFrom(chars, 1)
    IN  SelectSeq([ i \in 1..Len(pieces) |-> trim(pieces[i]) ], NonEmptyPiece)

\* echo "a|b" | grep a
QuotedPipeExample ==
    << "echo", Blank, "\"", "a", "|", "b", "\"", Blank, "|", Blank, "grep", Blank, "a" >>
\* a || b
LogicalOrExample == << "a", Blank, "|", "|", Blank, "b" >>

\* C26: for every command, parse_pipeline returns the pieces between the pipes
\* that are outside single quotes, outside double quotes, not escaped by a
\* backslash and not part of a `||` pair, each piece trimmed, the empty ones
\* left out, in left-to-right order; `echo "a|b" | grep a` gives 2 segments
\* and `a || b` gives 1.
C26_SplitsAtBarePipes ==
    /\ rec.op = "parse_pipeline" =>
          /\ rec.arg = ExpectedSegments(rec.command)
          /\ \A k \in 1..Len(rec.arg) : rec.arg[k] # <<>> /\ trim(rec.arg[k]) = rec.arg[k]
    /\ Len(parse_pipeline(QuotedPipeExample)) = 2
    /\ Len(parse_pipeline(LogicalOrExample)) = 1

\* A command with a pipe inside double quotes and a bare pipe after it has been split.
C26_Witness ==
    /\ rec.op = "parse_pipeline"
    /\ \E i, j \in 1..Len(rec.command) :
          /\ i < j
          /\ rec.command[i] = "|" /\ QuoteAt(rec.command, i) = "double"
          /\ j \in SplitPoints(rec.command)
    /\ Len(rec.arg) = 2

\* ---------------------------------------------------------------------------
\* hash_command on its own, applied to two commands of which the second is the
\* first with one edit: more whitespace, other content in a quoted literal, or
\* another run of digits.

\* Longest command hash_command is given before the edit, in symbols.
MaxHashLen == 4
\* A word, a digit, a blank, the two quotes, a backslash.
HashSymbols == {"a", "1", Blank, "\"", "'", "\\"}
HashCommands == UNION { [1..n -> HashSymbols] : n \in 1..MaxHashLen }

\* s with the symbols x put in after its first p symbols
Insert(s, p, x) == SubSeq(s, 1, p) \o x \o SubSeq(s, p + 1, Len(s))

\* What is left of a command when the content of its quoted literals is taken
\* out, the literals being those parse_pipeline's scanner sees: the symbols
\* read outside quotes and the closing quotes.
Skeleton(chars) ==
    LET kept(i) == \/ QuoteAt(chars, i) = "none"
                   \/ QuoteAt(Append(chars, Blank), i + 1) = "none"
        Keep(ch) == ch # "dropped"
    IN  SelectSeq([ i \in 1..Len(chars) |-> IF kept(i) THEN chars[i] ELSE "dropped" ], Keep)

\* Every quote of the command is closed.
Closed(chars) == QuoteAt(Append(chars, Blank), Len(chars) + 1) = "none"

\* The start of a maximal run of digits.
DigitRunStart(chars, i) ==
    IsDigit(chars[i]) /\ (i = 1 \/ ~IsDigit(chars[i - 1]))

\* The edits of a command c1 and their results: [kind, at, other].
WhitespaceEdits(c1) ==
    { [kind |-> "whitespace", at |-> p, other |-> Insert(c1, p, <<Blank>>)] :
        p \in { q \in 0..Len(c1) : \/ q = 0 \/ q = Len(c1)
                                    \/ c1[q] = Blank \/ c1[q + 1] = Blank } }

QuotedEdits(c1) ==
    { e \in { [kind |-> "quoted", at |-> p, other |-> Insert(c1, p, <<"a">>)] :
                p \in 1..(Len(c1) - 1) } :
        /\ Closed(c1) /\ Closed(e.other)
        /\ Skeleton(c1) = Skeleton(e.other) }

DigitEdits(c1) ==
    { [kind |-> "digits", at |-> p,
       other |-> SubSeq(c1, 1, p - 1) \o <<"2">>
                   \o SubSeq(c1, digit_run_end(c1, p) + 1, Len(c1))] :
        p \in { q \in 1..Len(c1) : DigitRunStart(c1, q) } }

\* The one pair of calls of hash_command of a run; rec keeps the first command,
\* and in arg the edit, the second command and the two fingerprints.
HashCommandPair ==
    /\ rec.op = "none"
    /\ \E c1 \in HashCommands :
         \E e \in WhitespaceEdits(c1) \cup QuotedEdits(c1) \cup DigitEdits(c1) :
            rec' = [NoRec EXCEPT !.op = "hash_command", !.command = c1,
                                 !.arg = [ kind |-> e.kind, at |-> e.at, other |-> e.other,
                                           hash |-> hash_command(c1),
                                           other_hash |-> hash_command(e.other) ]]
    /\ UNCHANGED <<breakerVars, serverVars, db, conns, ex, io>>

HashNext == HashCommandPair

HashSpec == Init /\ [][HashNext]_vars

\* The place after the first p symbols lies between a double quote and the
\* next one, the double quotes being paired from the left.
InDoubleSpan(chars, p) ==
    /\ Cardinality({ i \in 1..p : chars[i] = "\"" }) % 2 = 1
    /\ \E j \in (p + 1)..Len(chars) : chars[j] = "\""

\* The same for the single quotes that stand outside the double-quoted spans.
InSingleSpan(chars, p) ==
    LET outside == { i \in 1..Len(chars) : chars[i] = "'" /\ ~InDoubleSpan(chars, i) }
    IN  /\ ~InDoubleSpan(chars, p)
        /\ Cardinality({ i \in outside : i <= p }) % 2 = 1
        /\ \E j \in outside : j > p

\* The run of digits that starts at p has no word character on either side.
BareRun(chars, p) ==
    /\ p = 1 \/ ~IsWordChar(chars[p - 1])
    /\ LET e == digit_run_end(chars, p)
       IN  e = Len(chars) \/ ~IsWordChar(chars[e + 1])

\* The edit is one the normalization takes out.
NormalizedAway ==
    \/ rec.arg.kind = "whitespace"
    \/ rec.arg.kind = "quoted"
         /\ (InDoubleSpan(rec.command, rec.arg.at) \/ InSingleSpan(rec.command, rec.arg.at))
    \/ rec.arg.kind = "digits" /\ BareRun(rec.command, rec.arg.at)

\* C27: two commands that differ only in whitespace, in the content of a
\* quoted literal, or in a run of digits have the same hash_command.
C27_SameHash ==
    rec.op = "hash_command" => rec.arg.hash = rec.arg.other_hash

\* C27 (amended): two commands have the same hash_command when they differ
\* only in the length of a whitespace run or in leading or trailing
\* whitespace, in what stands between a quote and the next quote of the same
\* kind (double quotes paired from the left, then the single quotes outside
\* those spans), or in a run of digits with no letter, digit or underscore
\* next to it.
C27_SameHashWhenNormalizedAway ==
    (rec.op = "hash_command" /\ NormalizedAway) => rec.arg.hash = rec.arg.other_hash

\* A bare number after a word and a blank has been replaced by another number.
C27_Witness ==
    /\ rec.op = "hash_command"
    /\ rec.arg.kind = "digits"
    /\ BareRun(rec.command, rec.arg.at)
    /\ rec.arg.at = 3
    /\ rec.command[1] = "a" /\ rec.command[2] = Blank
    /\ rec.command # rec.arg.other
    /\ rec.arg.hash = rec.arg.other_hash

\* ---------------------------------------------------------------------------
\* template_command on its own.

\* BASE_COMMANDS
BASE_COMMANDS ==
    { "git", "npm", "yarn", "pip", "docker", "kubectl", "make", "cargo", "go", "python",
      "node", "ruby", "curl", "wget", "cat", "grep", "find", "ls", "cd", "rm", "cp", "mv",
      "mkdir", "systemctl", "journalctl", "apt", "pacman", "brew" }

\* str::to_lowercase of a word
to_lowercase(word) == IF word = "GIT" THEN "git" ELSE word

\* str::split(' '): the parts between the blanks, the empty ones too
RECURSIVE split(_, _)
split(s, part) ==
    IF s = <<>> THEN << part >>
    ELSE IF Head(s) = Blank THEN << part >> \o split(Tail(s), <<>>)
    ELSE split(Tail(s), Append(part, Head(s)))

\* [String]::join(" ")
RECURSIVE join(_)
join(parts) ==
    IF parts = <<>> THEN <<>>
    ELSE IF Len(parts) = 1 THEN parts[1]
    ELSE parts[1] \o << Blank >> \o join(Tail(parts))

\* BASE_COMMANDS.contains(&part.to_lowercase().as_str())
is_base_command(part) == Len(part) = 1 /\ to_lowercase(part[1]) \in BASE_COMMANDS

\* part.starts_with('-')
starts_with_dash(part) == part # <<>> /\ part[1] = "-"

\* The loop of template_command that pushes a `*` for every positional argument
RECURSIVE template_parts_from_every_positional(_, _, _, _)
template_parts_from_every_positional(parts, i, found_base, template_parts) ==
    IF i > Len(parts) THEN template_parts
    ELSE LET part == parts[i]
         IN  IF ~found_base
             THEN LET pushed == Append(template_parts, part)
                  IN  IF is_base_command(part)
                      THEN IF i + 1 <= Len(parts) /\ ~starts_with_dash(parts[i + 1])
                           THEN template_parts_from_every_positional(parts, i + 1, FALSE, pushed)
                           ELSE template_parts_from_every_positional(parts, i + 1, TRUE, pushed)
                      ELSE IF i >= 2
                           THEN template_parts_from_every_positional(parts, i + 1, TRUE, pushed)
                           ELSE template_parts_from_every_positional(parts, i + 1, FALSE, pushed)
             ELSE IF starts_with_dash(part)
                  THEN template_parts_from_every_positional(parts, i + 1, TRUE, Append(template_parts, part))
                  ELSE IF TRUE
                       THEN template_parts_from_every_positional(parts, i + 1, TRUE,
                                                Append(template_parts, <<"*">>))
                       ELSE template_parts_from_every_positional(parts, i + 1, TRUE, template_parts)

\* The loop of template_command from part i on (parts are numbered from 1 here)
RECURSIVE template_parts_from(_, _, _, _)
template_parts_from(parts, i, found_base, template_parts) ==
    IF i > Len(parts) THEN template_parts
    ELSE LET part == parts[i]
         IN  IF ~found_base
             THEN LET pushed == Append(template_parts, part)
                  IN  IF is_base_command(part)
                      THEN IF i + 1 <= Len(parts) /\ ~starts_with_dash(parts[i + 1])
                           THEN template_parts_from(parts, i + 1, FALSE, pushed)
                           ELSE template_parts_from(parts, i + 1, TRUE, pushed)
                      ELSE IF i >= 2
                           THEN template_parts_from(parts, i + 1, TRUE, pushed)
                           ELSE template_parts_from(parts, i + 1, FALSE, pushed)
             ELSE IF starts_with_dash(part)
                  THEN template_parts_from(parts, i + 1, TRUE, Append(template_parts, part))
                  ELSE IF template_parts = <<>> \/ template_parts[Len(template_parts)] # <<"*">>
                       THEN template_parts_from(parts, i + 1, TRUE,
                                                Append(template_parts, <<"*">>))
                       ELSE template_parts_from(parts, i + 1, TRUE, template_parts)

\* template_command
template_command(command) ==
    LET normalized == collapse_whitespace(trim(command))
        parts == split(normalized, <<>>)
    IN  join(template_parts_from(parts, 1, FALSE, <<>>))

\* Most tokens a command given to template_command has.
MaxTemplateTokens == 4
\* A known binary, the same in capitals, a second known binary, another word, a flag.
TemplateTokens == { <<"git">>, <<"GIT">>, <<"rm">>, <<"x">>, <<"-", "f">> }
TemplateTokenSeqs == UNION { [1..n -> TemplateTokens] : n \in 0..MaxTemplateTokens }

\* The tokens written with one blank between them, or with two and with
\* blanks around them.
RECURSIVE Written(_, _)
Written(tokens, wide) ==
    LET gap == IF wide THEN << Blank, Blank >> ELSE << Blank >>
    IN  IF tokens = <<>> THEN (IF wide THEN << Blank >> ELSE <<>>)
        ELSE IF Len(tokens) = 1 THEN tokens[1] \o (IF wide THEN << Blank >> ELSE <<>>)
        ELSE tokens[1] \o gap \o Written(Tail(tokens), wide)

TemplateCommands ==
    { (IF wide THEN << Blank >> ELSE <<>>) \o Written(tokens, wide) :
        tokens \in TemplateTokenSeqs, wide \in BOOLEAN }

\* The one call of template_command of a run; rec keeps the command and the
\* template returned.
TemplateCommand ==
    /\ rec.op = "none"
    /\ \E command \in TemplateCommands :
          rec' = [NoRec EXCEPT !.op = "template_command", !.command = command,
                               !.arg = template_command(command)]
    /\ UNCHANGED <<breakerVars, serverVars, db, conns, ex, io>>

TemplateNext == TemplateCommand

TemplateSpec == Init /\ [][TemplateNext]_vars

\* Flags kept, every maximal run of other tokens replaced by one `*`.
CollapseRuns(rest) ==
    LET Keep(token) == token # << "dropped" >>
    IN  SelectSeq([ i \in 1..Len(rest) |->
                      IF starts_with_dash(rest[i]) THEN rest[i]
                      ELSE IF i = 1 \/ starts_with_dash(rest[i - 1]) THEN << "*" >>
                      ELSE << "dropped" >> ], Keep)

\* The template whose first k tokens are those of the command.
TemplateWithBase(tokens, k) ==
    join(SubSeq(tokens, 1, k) \o CollapseRuns(SubSeq(tokens, k + 1, Len(tokens))))

\* The base as the claim has it: the first token, and the next one when the
\* first is a known binary and the next is no flag.
ClaimedBase(tokens) ==
    IF tokens = <<>> THEN 0
    ELSE IF is_base_command(tokens[1]) /\ Len(tokens) >= 2 /\ ~starts_with_dash(tokens[2])
    THEN 2 ELSE 1

\* The base as the loop has it: it ends at the first known binary that is the
\* last token or stands before a flag, or at the first token after the first
\* that is no known binary.
LoopBase(tokens) ==
    LET ends == { k \in 1..Len(tokens) :
                    \/ is_base_command(tokens[k])
                         /\ (k = Len(tokens) \/ starts_with_dash(tokens[k + 1]))
                    \/ ~is_base_command(tokens[k]) /\ k >= 2 }
    IN  IF ends = {} THEN Len(tokens)
        ELSE CHOOSE k \in ends : \A j \in ends : k <= j

overall(frame) == IF frame.pipestatus = <<>> THEN 0 ELSE Last(frame.pipestatus)
shown_pipestatus(frame) == IF Len(frame.pipestatus) > 1 THEN frame.pipestatus ELSE <<>>

\* The Executor of task id ended with a pipestatus, the meta file was read and
\* the task has been finalized.
FinishedWith(id) ==
    /\ id \in DOMAIN tasks
    /\ tasks[id].status = "completed"
    /\ procs[id].state = "reaped"
    /\ procs[id].result # NoResult
    /\ procs[id].result.pipestatus # <<>>

\* C29: for a task that finished with pipestatus P, zsh_poll shows a completed
\* frame with exit = last element of P, the word FAILED when that is non-zero
\* and COMPLETED when it is zero, and P itself, whether the poll handler or an
\* earlier sweep found the task finished; the task's [notify] line carries the
\* same exit code.
C29_PollShowsExitOfTask ==
    \A id \in DOMAIN tasks :
        FinishedWith(id) =>
            LET P == procs[id].result.pipestatus
                shown == [ pipestatus |-> P ]
            IN  /\ (resp.tool = "zsh_poll" /\ resp.task_id = id) =>
                      /\ resp.frame.status = "completed"
                      /\ overall(resp.frame) = Last(P)
                      /\ format_task_output(resp.frame)
                            = (IF Last(P) = 0 THEN "COMPLETED" ELSE "FAILED")
                      /\ shown_pipestatus(resp.frame) = shown_pipestatus(shown)
                /\ \A i \in 1..Len(resp.notify) :
                      resp.notify[i].task_id = id => resp.notify[i].exit_code = Last(P)

\* ---------------------------------------------------------------------------
\* What the breaker is told when tasks are finalized.

\* What finalize_task is to tell the breaker of the task `id` of state S: its
\* command, and whether its meta file says timed_out.
Finalization(S, id) ==
    [ task_id |-> id, command |-> S.tasks[id].command,
      timed_out |-> S.procs[id].meta /\ S.procs[id].result.timed_out ]

\* The state after a call of `tool` whose sweep visited the running tasks in
\* `order` and whose handler led to r.S and returned r.frame, finalizing the
\* tasks of `own` itself. Kept of the call: the breaker and the running tasks
\* it found, the time, the tasks its sweep finalized, those its handler
\* finalized.
FeedCall(tool, task_id, order, r, own, spawned) ==
    LET d == prepend_events(r.S)
    IN  /\ StoreRespond(d.S, tool, task_id, r.frame, d.lines, spawned)
        /\ rec' = [ NoRec EXCEPT
                      !.op = tool,
                      !.arg = [ cb |-> cb, t |-> now,
                                running |-> { id \in DOMAIN tasks : tasks[id].status = "running" },
                                swept |-> [ i \in 1..Len(SweptIds(St, order)) |->
                                              Finalization(St, SweptIds(St, order)[i]) ],
                                own |-> own ] ]
        /\ UNCHANGED db

\* tools/call zsh
CallZshFeed ==
    \E order \in Orders(St), command \in Hashes, how \in QuietOutcomes :
        LET S1 == check_and_finalize_background_tasks(St, order, now)
            r == handle_zsh(S1, command, FALSE, how, now)
            own == IF r.spawned /\ how.kind = "exited"
                   THEN << [ task_id |-> Unregistered, command |-> command,
                             timed_out |-> how.result.timed_out ] >>
                   ELSE <<>>
        IN  /\ r.S.next_id <= MaxTasks
            /\ FeedCall("zsh", 0, order, r, own, r.spawned)

\* The command of a background task ends, or its timeout passes.
ExecutorExitFeed == ExecutorExits(ExecResults)

\* tools/call zsh_poll; the Executor of the polled task may exit between the
\* sweep and the handler's own try_wait
CallPollFeed ==
    \E order \in Orders(St), task_id \in TaskIds, race \in BOOLEAN, result \in ExecResults :
        LET S1 == check_and_finalize_background_tasks(St, order, now)
            racing == /\ race
                      /\ task_id \in DOMAIN S1.tasks
                      /\ S1.procs[task_id].state = "running"
            S2 == IF racing
                  THEN [S1 EXCEPT !.procs[task_id] = ProcExit(@, result)]
                  ELSE S1
            own == IF racing THEN << Finalization(S2, task_id) >> ELSE <<>>
        IN  /\ race = racing
            /\ ~race => result = [pipestatus |-> <<0>>, timed_out |-> FALSE]
            /\ FeedCall("zsh_poll", task_id, order, handle_poll(S2, task_id, now), own, FALSE)

\* tools/call zsh_health, or another tool that only reads
CallReadOnlyFeed ==
    \E order \in Orders(St) :
        LET S1 == check_and_finalize_background_tasks(St, order, now)
        IN  FeedCall("zsh_health", 0, order, [S |-> S1, frame |-> text_content("status")],
                     <<>>, FALSE)

FeedNext ==
    \/ Tick
    \/ CallZshFeed
    \/ ExecutorExitFeed
    \/ CallPollFeed
    \/ CallReadOnlyFeed

FeedSpec == Init /\ [][FeedNext]_vars

\* The breaker b after one record_timeout or record_success for each of the
\* finalizations, in their order.
RECURSIVE Fed(_, _, _)
Fed(b, t, finalizations) ==
    IF finalizations = <<>> THEN b
    ELSE LET f == Head(finalizations)
         IN  Fed(IF f.timed_out THEN record_timeout(b, t, f.command) ELSE record_success(b),
                 t, Tail(finalizations))

FeedTools == {"zsh", "zsh_poll", "zsh_health"}

\* C30: every finalization of a task, be it by the zsh call that started it,
\* by the handler of zsh_poll or by the sweep of any tool call, gives the
\* breaker one record_timeout(hash(command)) if the meta file says timed_out
\* and one record_success otherwise, and nothing else of the call but zsh's
\* should_allow touches the breaker: the registered tasks that left the running
\* state are those finalized, and the breaker after the call is the breaker before
\* it fed with the finalizations of the sweep and then of the handler.
C30_EveryFinalizationFeedsBreaker ==
    rec.op \in FeedTools =>
        LET a == rec.arg
            after_sweep == Fed(a.cb, a.t, a.swept)
            probed == IF rec.op = "zsh" THEN should_allow(after_sweep, a.t).cb ELSE after_sweep
        IN  /\ cb = Fed(probed, a.t, a.own)
            /\ { id \in a.running : tasks[id].status # "running" }
                 = { a.swept[i].task_id : i \in 1..Len(a.swept) }
                     \cup ({ a.own[i].task_id : i \in 1..Len(a.own) } \ {Unregistered})

\* The sweep of a zsh_health call has finalized a background task that timed
\* out and was never polled, and the timeout is in the breaker's failure list.
C30_Witness ==
    /\ rec.op = "zsh_health"
    /\ Len(rec.arg.swept) = 1
    /\ rec.arg.swept[1].timed_out
    /\ rec.arg.cb.state = "Closed"
    /\ \E i \in 1..Len(cb.failures) :
          cb.failures[i] = [t |-> rec.arg.t, h |-> rec.arg.swept[1].command]
    /\ cb.state = "Open"

\* ---------------------------------------------------------------------------
\* How often a task is finalized over its lifetime.

\* Each background task runs a command of its own, so that the entries of the
\* breaker's failure list tell the tasks apart; "h0" is the command of the
\* calls that are not registered.
OnceCommands == <<"h1", "h2", "h3", "h4">>

\* The number of events of a queue that name the task id.
EventsOf(queue, id) == Len(SelectSeq(queue, LAMBDA ev : ev.task_id = id))

\* The state after a call of `tool` whose sweep led from the present state to
\* S1 and whose handler led on to r.S and returned r.frame. conns counts, per
\* task started, the events enqueued for it over all calls (up to 2): those the
\* sweep appended and those the handler appended.
OnceCall(tool, task_id, S1, r) ==
    LET d == prepend_events(r.S)
        added(id) ==
            (EventsOf(S1.event_queue, id) - EventsOf(event_queue, id))
            + Max(0, EventsOf(r.S.event_queue, id) - EventsOf(S1.event_queue, id))
    IN  /\ tasks' = d.S.tasks
        /\ event_queue' = d.S.event_queue
        /\ procs' = d.S.procs
        /\ cb' = d.S.cb
        /\ next_id' = d.S.next_id
        /\ resp' = [ NoResp EXCEPT !.tool = tool, !.task_id = task_id, !.frame = r.frame,
                                   !.notify = d.lines ]
        /\ rec' = [NoRec EXCEPT !.op = tool]
        /\ conns' = [id \in DOMAIN d.S.procs |->
                        UpTo2((IF id \in DOMAIN conns THEN conns[id] ELSE 0) + added(id))]
        /\ UNCHANGED <<now, call, tlog, obs, db, ex, io>>

\* tools/call zsh: the Executor cannot be spawned, has exited by the end of
\* the yield_after sleep, or runs on in the background
CallZshOnce ==
    \E order \in Orders(St), how \in QuietOutcomes :
        LET S1 == check_and_finalize_background_tasks(St, order, now)
            command == IF how.kind = "running" THEN OnceCommands[S1.next_id + 1] ELSE "h0"
            r == handle_zsh(S1, command, FALSE, how, now)
        IN  /\ S1.next_id < MaxNotifyTasks
            /\ S1.next_id < Len(OnceCommands)
            /\ how.kind = "exited" => ~how.result.timed_out
            /\ OnceCall("zsh", 0, S1, r)

\* The command of a background task ends, or its timeout passes.
ExecutorExitOnce ==
    \E id \in DOMAIN procs, result \in ExecResults :
        /\ procs[id].state = "running"
        /\ id \in DOMAIN tasks
        /\ procs' = [procs EXCEPT ![id] = ProcExit(@, result)]
        /\ rec' = [NoRec EXCEPT !.op = "exit"]
        /\ UNCHANGED <<cb, now, call, tlog, tasks, event_queue, next_id, resp, obs,
                       db, conns, ex, io>>

\* The state S with the Executor of task_id exited, if `racing`: it exits
\* between the sweep of a call and the handler's own look at it.
Raced(S, task_id, racing, result) ==
    IF racing THEN [S EXCEPT !.procs[task_id] = ProcExit(@, result)] ELSE S

\* tools/call zsh_poll
CallPollOnce ==
    \E order \in Orders(St), task_id \in NotifyTaskIds, race \in BOOLEAN,
       result \in ExecResults :
        LET S1 == check_and_finalize_background_tasks(St, order, now)
            racing == /\ race
                      /\ task_id \in DOMAIN S1.tasks
                      /\ S1.procs[task_id].state = "running"
            S2 == Raced(S1, task_id, racing, result)
        IN  /\ race = racing
            /\ ~race => result = [pipestatus |-> <<0>>, timed_out |-> FALSE]
            /\ OnceCall("zsh_poll", task_id, S1, handle_poll(S2, task_id, now))

\* tools/call zsh_kill
CallKillOnce ==
    \E order \in Orders(St), task_id \in NotifyTaskIds, race \in BOOLEAN,
       result \in ExecResults :
        LET S1 == check_and_finalize_background_tasks(St, order, now)
            racing == /\ race
                      /\ task_id \in DOMAIN S1.tasks
                      /\ S1.procs[task_id].state = "running"
            S2 == Raced(S1, task_id, racing, result)
        IN  /\ race = racing
            /\ ~race => result = [pipestatus |-> <<0>>, timed_out |-> FALSE]
            /\ OnceCall("zsh_kill", task_id, S1, handle_kill(S2, task_id))

\* tools/call zsh_health, or another tool that only reads
CallReadOnlyOnce ==
    \E order \in Orders(St) :
        LET S1 == check_and_finalize_background_tasks(St, order, now)
        IN  OnceCall("zsh_health", 0, S1, [S |-> S1, frame |-> text_content("status")])

\* A breaker whose threshold the tasks of one run do not reach.
OnceInit ==
    /\ cb = CircuitBreaker_new(MaxNotifyTasks + 1, RecoveryTimeout, SampleWindow)
    /\ now = 0
    /\ call = NoCall
    /\ tlog = <<>>
    /\ ServerInit
    /\ AuxInit

\* The calls are made within one tick of the clock.
OnceNext ==
    \/ CallZshOnce
    \/ ExecutorExitOnce
    \/ CallPollOnce
    \/ CallKillOnce
    \/ CallReadOnlyOnce

OnceSpec == OnceInit /\ [][OnceNext]_vars

\* The timeouts the breaker has recorded for the command of task id.
TimeoutsOf(id) ==
    Len(SelectSeq(cb.failures, LAMBDA f : f.h = OnceCommands[id]))

\* The tasks zsh_kill removed from the registry.
Killed == DOMAIN procs \ DOMAIN tasks

\* C31: over any sequence of tool calls a task is finalized at most once: at
\* most one event is ever enqueued for it and the breaker records at most one
\* timeout for it, and that only if its meta file said so; a task removed by
\* zsh_kill has no event and no entry in the breaker's failure list, whatever
\* its Executor did before it was killed.
C31_FinalizedAtMostOnce ==
    \A id \in DOMAIN procs :
        /\ id \in DOMAIN conns => conns[id] <= 1
        /\ TimeoutsOf(id) <= 1
        /\ TimeoutsOf(id) = 1 => procs[id].result.timed_out
        /\ EventsOf(event_queue, id) <= 1
        /\ id \in DOMAIN tasks /\ tasks[id].status = "running" =>
              /\ TimeoutsOf(id) = 0
              /\ id \in DOMAIN conns => conns[id] = 0
        /\ id \in Killed =>
              /\ TimeoutsOf(id) = 0
              /\ id \in DOMAIN conns => conns[id] = 0
              /\ EventsOf(event_queue, id) = 0

\* A task that timed out was finalized by a sweep, its line was shown, and it
\* has since been polled; another task was killed after its Executor timed out.
C31_Witness ==
    /\ rec.op = "zsh_poll"
    /\ resp.task_id \in DOMAIN tasks
    /\ tasks[resp.task_id].status = "completed"
    /\ conns[resp.task_id] = 1
    /\ TimeoutsOf(resp.task_id) = 1
    /\ resp.notify = <<>>
    /\ \E id \in Killed : procs[id].result.timed_out

\* ---------------------------------------------------------------------------
\* How long the breaker stays Open.

\* What is kept of the open period: `entered` holds the time at which the
\* breaker last went from another state to Open and has stayed Open since
\* (empty when it is not Open); `probe` is the task registered by the zsh call
\* that last led the breaker from Open to HalfOpen (0: none, or the command
\* ended within yield_after) with the breaker as that call left it.
NoPeriod ==
    [ entered |-> {}, late |-> FALSE, refused |-> FALSE,
      probe |-> [id |-> 0, cb |-> CircuitBreaker_new(1, 0, 0)],
      second |-> FALSE, spawned |-> FALSE ]

\* The open period after a step that led the breaker from b0 to b1 at time t.
EnteredAfter(entered, b0, b1, t) ==
    IF b1.state # "Open" THEN {}
    ELSE IF b0.state = "Open" THEN entered
    ELSE {t}

\* Whether the state S, met by a call after its sweep, has the probe running
\* in the background and the breaker HalfOpen as the probe's call left it:
\* neither a success nor a timeout was recorded since.
ProbePending(S, probe) ==
    /\ probe.id # 0
    /\ S.cb.state = "HalfOpen"
    /\ S.cb = probe.cb
    /\ probe.id \in DOMAIN S.tasks
    /\ S.tasks[probe.id].status = "running"

\* The state after a call of `tool` whose sweep led from the present state to
\* S1, whose handler then passed through the breaker mid (after should_allow,
\* for zsh) and led to r.S. Kept of the call: the open period afterwards,
\* whether the call arrived later than recovery_timeout after the breaker had
\* entered Open, whether the breaker refused it, the probe, whether the call
\* is a zsh call that met a pending probe, and whether it spawned an Executor.
RecoveryCall(tool, S1, mid, r, spawned) ==
    LET d == prepend_events(r.S)
        period == IF rec.arg = <<>> THEN NoPeriod ELSE rec.arg
        e1 == EnteredAfter(period.entered, cb, S1.cb, now)
        e2 == EnteredAfter(e1, S1.cb, mid, now)
        e3 == EnteredAfter(e2, mid, r.S.cb, now)
        probing == tool = "zsh" /\ S1.cb.state = "Open" /\ mid.state = "HalfOpen"
    IN  /\ StoreRespond(d.S, tool, 0, r.frame, d.lines, spawned)
        /\ rec' = [ NoRec EXCEPT
                      !.op = tool,
                      !.arg = [ entered |-> e3,
                                late |-> \E t \in period.entered :
                                            now > t + cb.recovery_timeout,
                                refused |-> r.frame.status = "error"
                                            /\ r.frame.error # "Failed to spawn executor",
                                probe |-> IF probing
                                          THEN [ id |-> IF r.S.next_id # S1.next_id
                                                        THEN r.S.next_id ELSE 0,
                                                 cb |-> r.S.cb ]
                                          ELSE period.probe,
                                second |-> tool = "zsh" /\ ProbePending(S1, period.probe),
                                spawned |-> spawned ] ]
        /\ UNCHANGED db

\* tools/call zsh
CallZshRecovery ==
    \E order \in Orders(St), command \in Hashes, how \in QuietOutcomes :
        LET S1 == check_and_finalize_background_tasks(St, order, now)
            r == handle_zsh(S1, command, FALSE, how, now)
        IN  /\ r.S.next_id <= MaxTasks
            /\ RecoveryCall("zsh", S1, should_allow(S1.cb, now).cb, r, r.spawned)

\* tools/call zsh_health, or another tool that only reads
CallReadOnlyRecovery ==
    \E order \in Orders(St) :
        LET S1 == check_and_finalize_background_tasks(St, order, now)
        IN  RecoveryCall("zsh_health", S1, S1.cb,
                         [S |-> S1, frame |-> text_content("status")], FALSE)

\* tools/call zsh_neverhang_reset
CallNeverhangResetRecovery ==
    \E order \in Orders(St) :
        LET S1 == check_and_finalize_background_tasks(St, order, now)
        IN  RecoveryCall("zsh_neverhang_reset", S1, S1.cb, handle_neverhang_reset(S1), FALSE)

RecoveryNext ==
    \/ Tick
    \/ CallZshRecovery
    \/ ExecutorExitNotify
    \/ CallReadOnlyRecovery
    \/ CallNeverhangResetRecovery

RecoverySpec == Init /\ [][RecoveryNext]_vars

\* C32: a zsh call made later than recovery_timeout after the breaker entered
\* Open, with no reset in between, is not refused by the breaker, also when
\* tasks started before are finalized as timed out while the breaker is Open.
C32_OpenPeriodEnds ==
    (rec.op = "zsh" /\ rec.arg.late) => ~rec.arg.refused

\* ---------------------------------------------------------------------------
\* What zsh_kill leaves running.

\* C33: once zsh_kill has killed the Executor of a task, no process started
\* for the task runs any more: neither the shell the Executor launched nor a
\* process the command left behind, in the shell's process group or outside it.
C33_KillEndsAll ==
    ex.pc = "killed" => (ex.child # "running" /\ ex.bg = "none")

\* ---------------------------------------------------------------------------
\* How many executions a HalfOpen breaker admits.

\* C34: after the zsh call that led the breaker from Open to HalfOpen, no
\* further zsh call is admitted until a success or a timeout is recorded: a
\* zsh call that finds the probe still running in the background is refused.
C34_OneProbe ==
    (rec.op = "zsh" /\ rec.arg.second) => rec.arg.refused

\* C34, as the breaker does it: a HalfOpen breaker admits every zsh call, so
\* a zsh call that finds the probe still running in the background, with
\* neither a success nor a timeout recorded since, is admitted as well.
C34_HalfOpenAdmitsAll ==
    (rec.op = "zsh" /\ rec.arg.second) => ~rec.arg.refused

\* A second zsh call met the probe running and spawned an Executor of its own.
C34_Witness ==
    /\ rec.op = "zsh"
    /\ rec.arg.second
    /\ rec.arg.spawned
    /\ ~rec.arg.refused
    /\ resp.frame.status = "completed"

\* ---------------------------------------------------------------------------
\* What the meta file and the exit status of the Executor say.

\* The status a parent reads from wait() after process::exit(code): the low
\* eight bits of the code.
exit_status(code) == code % 256

\* C35: every meta file the Executor writes has a non-empty pipestatus whose
\* last element is its exit_code, and the Executor process exits with that
\* exit code, whether the command ran to its end, was killed at its timeout, or
\* could not be run.
C35_MetaExitCode ==
    \A m \in ex.meta :
        /\ m.pipestatus # <<>>
        /\ Last(m.pipestatus) = m.exit_code
        /\ ex.pc = "exited" => exit_status(ex.exit_code) = m.exit_code

\* ------------------------------------------- records without segment rows

\* Whether the last record call was given a pipestatus that does not match the
\* segments of its command, or one of fewer than two entries.
Unmatched == Len(rec.pipestatus) # Segments \/ Len(rec.pipestatus) < 2

\* The fingerprints whose streak row the last record call wrote or changed.
ChangedStreaks ==
    {h \in DOMAIN db.streaks :
        h \notin DOMAIN rec.pre.streaks \/ db.streaks[h] # rec.pre.streaks[h]}

\* C36: when the number of segments of the command differs from the length of
\* pipestatus, or pipestatus has fewer than two entries, record adds exactly
\* one observation and one recent_commands row, both of the full command's
\* fingerprint, and updates the streak of that fingerprint only.
C36_UnmatchedRecordsOneRow ==
    (rec.op = "record" /\ Unmatched) =>
        /\ Cardinality(NewObservations) = 1
        /\ Cardinality(NewRecent) = 1
        /\ \A o \in NewObservations : o.command_hash = hash_command(rec.command)
        /\ \A r \in NewRecent : r.command_hash = hash_command(rec.command)
        /\ ChangedStreaks = {hash_command(rec.command)}
        /\ DOMAIN rec.pre.streaks \subseteq DOMAIN db.streaks

\* A pipeline of two segments was recorded with a pipestatus of one entry, and
\* a single command with a pipestatus of two.
C36_Witness ==
    /\ rec.op = "record"
    /\ Len(rec.pipestatus) >= 1
    /\ Len(rec.pipestatus) # Segments
    /\ Cardinality(NewObservations) = 1
    /\ ChangedStreaks = {hash_command(rec.command)}

\* ------------------------------------------- commands that end within yield_after

\* What is remembered of the calls so far: whether some zsh call returned the
\* completed frame of its command itself, and for the last call the registry
\* and the queue as its sweep left them and as its handler left them.
NoDirect == [ direct |-> FALSE, swept |-> {}, handled |-> {},
              queued |-> <<>>, enqueued |-> <<>> ]

\* The state after a call of `tool` whose sweep led from the present state to
\* S1 and whose handler led on to r.S and returned r.frame.
DirectCall(tool, task_id, S1, r) ==
    LET d == prepend_events(r.S)
        before == IF rec.op = "none" THEN NoDirect ELSE rec.arg
    IN  /\ tasks' = d.S.tasks
        /\ event_queue' = d.S.event_queue
        /\ procs' = d.S.procs
        /\ cb' = d.S.cb
        /\ next_id' = d.S.next_id
        /\ resp' = [ NoResp EXCEPT !.tool = tool, !.task_id = task_id, !.frame = r.frame,
                                   !.notify = d.lines ]
        /\ rec' = [ NoRec EXCEPT
                      !.op = tool,
                      !.arg = [ direct |-> before.direct
                                           \/ (tool = "zsh" /\ r.frame.status = "completed"),
                                swept |-> DOMAIN S1.tasks,
                                handled |-> DOMAIN r.S.tasks,
                                queued |-> S1.event_queue,
                                enqueued |-> r.S.event_queue ] ]
        /\ UNCHANGED <<now, call, tlog, obs, conns, db, ex, io>>

\* tools/call zsh: the Executor cannot be spawned, has exited by the end of
\* the yield_after sleep, or runs on in the background
CallZshDirect ==
    \E order \in Orders(St), command \in Hashes, how \in QuietOutcomes :
        LET S1 == check_and_finalize_background_tasks(St, order, now)
            r == handle_zsh(S1, command, FALSE, how, now)
        IN  /\ r.S.next_id <= MaxNotifyTasks
            /\ DirectCall("zsh", 0, S1, r)

\* tools/call zsh_poll
CallPollDirect ==
    \E order \in Orders(St), task_id \in NotifyTaskIds :
        LET S1 == check_and_finalize_background_tasks(St, order, now)
        IN  DirectCall("zsh_poll", task_id, S1, handle_poll(S1, task_id, now))

\* tools/call zsh_health, or another tool that only reads
CallReadOnlyDirect ==
    \E order \in Orders(St) :
        LET S1 == check_and_finalize_background_tasks(St, order, now)
        IN  DirectCall("zsh_health", 0, S1, [S |-> S1, frame |-> text_content("status")])

\* The calls are made within one tick of the clock.
DirectNext ==
    \/ CallZshDirect
    \/ ExecutorExitNotify
    \/ CallPollDirect
    \/ CallReadOnlyDirect

DirectSpec == Init /\ [][DirectNext]_vars

\* The ids of the tasks the events of a queue name.
NamedIn(queue) == {queue[i].task_id : i \in DOMAIN queue}

\* C37: a zsh call that finds its Executor exited after the yield_after sleep
\* and returns the completed frame itself enqueues no event and inserts no
\* task into the registry; the id of its frame is no key of the registry, and
\* no event in the queue and no [notify] line of that or of a later response
\* names it: the lines name registered tasks only.
C37_DirectResultNoEvent ==
    (rec.op # "none" /\ rec.arg.direct) =>
        /\ (resp.tool = "zsh" /\ resp.frame.status = "completed") =>
              /\ rec.arg.enqueued = rec.arg.queued
              /\ rec.arg.handled = rec.arg.swept
              /\ resp.frame.task_id \notin DOMAIN tasks
              /\ resp.frame.task_id \notin NamedIn(resp.notify)
        /\ Unregistered \notin DOMAIN tasks
        /\ Unregistered \notin NamedIn(event_queue) \cup NamedIn(resp.notify)
        /\ NamedIn(resp.notify) \subseteq DOMAIN tasks

\* After a zsh call returned a completed frame itself, a later response carries
\* the [notify] line of a task that finished in the background.
C37_Witness ==
    /\ rec.op = "zsh_health"
    /\ rec.arg.direct
    /\ resp.notify # <<>>
    /\ \E id \in DOMAIN tasks : tasks[id].status = "completed"

\* ------------------------------------------- the life of a task

\* tools/call zsh_send
CallSendLife ==
    \E order \in Orders(St), task_id \in NotifyTaskIds, input \in Inputs :
        LET S1 == check_and_finalize_background_tasks(St, order, now)
        IN  OnceCall("zsh_send", task_id, S1, handle_send(S1, task_id, input))

\* The calls are made within one tick of the clock.
LifeNext ==
    \/ CallZshOnce
    \/ ExecutorExitOnce
    \/ CallPollOnce
    \/ CallKillOnce
    \/ CallSendLife
    \/ CallReadOnlyOnce

LifeSpec == OnceInit /\ [][LifeNext]_vars

\* The statuses a task ends in.
TerminalStatuses == {"completed", "killed", "timeout", "error"}

\* One step of a registered task id: an entry that is not running stays in the
\* registry as it is, a status changes only from running to a terminal one, and
\* a zsh_poll of an entry that is not running answers with the status and the
\* pipestatus stored in it.
LifeStep(id) ==
    /\ tasks[id].status # "running" =>
          /\ id \in DOMAIN tasks'
          /\ tasks'[id] = tasks[id]
          /\ (rec'.op = "zsh_poll" /\ resp'.task_id = id) =>
                resp'.frame = Frame(tasks[id].status, id, tasks[id].pipestatus, "", 0)
    /\ (id \in DOMAIN tasks' /\ tasks'[id].status # tasks[id].status) =>
          /\ tasks[id].status = "running"
          /\ tasks'[id].status \in TerminalStatuses

C39_NewBytesNotReturnedBefore ==
    [][\A id \in TaskIds :
          PolledRunning(id) =>
             resp'.frame.new_bytes <= tasks'[id].output_buffer - tasks[id].output_buffer]_vars

\* ------------------------------------------- the last steps of run_exec and the server's look at the Executor

\* The ExecResult run_exec writes when execute_pipe / execute_pty returned Err.
err_result == [pipestatus |-> <<>>, timed_out |-> FALSE]

\* Where the run_exec of a task's Executor stands: the command runs ("run"),
\* fs::write has created the meta file and not yet written it ("writing"), the
\* file is written ("wrote"), record has returned ("recorded"), the process has
\* ended ("exited"); `started` says whether the shell was started (the Ok arm).
NewRun == [pc |-> "run", started |-> TRUE]

\* Whether a finalized task of S has a run in the store.
Delivered(S) ==
    \E id \in DOMAIN S.tasks : S.tasks[id].status = "completed" /\ conns[id].started

\* The state after a call of `tool` whose sweep led from the present state to
\* S1 and whose handler led on to r.S and returned r.frame, with the store d
\* the Executors left. Kept of a zsh call: the pre-insights it took, and whether
\* by then the server had delivered a run of the command, as a completed frame
\* or as an event. Kept over the calls: whether a zsh call returned the
\* completed frame of a run itself.
OrderCall(tool, task_id, S1, r, d, direct) ==
    LET q == prepend_events(r.S)
        before == rec.op # "none" /\ rec.arg.direct
    IN  /\ tasks' = q.S.tasks
        /\ event_queue' = q.S.event_queue
        /\ procs' = q.S.procs
        /\ cb' = q.S.cb
        /\ next_id' = q.S.next_id
        /\ resp' = [ NoResp EXCEPT !.tool = tool, !.task_id = task_id, !.frame = r.frame,
                                   !.notify = q.lines ]
        /\ db' = d
        /\ rec' = [ NoRec EXCEPT
                      !.op = tool,
                      !.arg = [ insights |-> pre_insights(db, <<"h1">>, "ok"),
                                known |-> before \/ Delivered(S1),
                                direct |-> before \/ direct ] ]
        /\ conns' = [id \in DOMAIN q.S.procs |->
                        IF id \in DOMAIN conns THEN conns[id] ELSE NewRun]
        /\ UNCHANGED <<now, call, tlog, obs, ex, io>>

\* tools/call zsh: the pre-insights are taken, the Executor is spawned, and by
\* the end of the yield_after sleep it has run run_exec to its end or is still
\* running
CallZshOrder ==
    \E order \in Orders(St), how \in StoreOutcomes :
        LET S1 == check_and_finalize_background_tasks(St, order, now)
            r == handle_zsh(S1, "h1", FALSE, how, now)
            x == run_exec(db, <<"h1">>, how.result, "ok", now)
            ran == r.spawned /\ how.kind = "exited"
            d == IF ran THEN x.d ELSE db
        IN  /\ r.S.next_id <= MaxTasks
            /\ ran => d.next_row <= MaxStoreRows - MaxTasks
            /\ OrderCall("zsh", 0, S1, r, d, ran)

\* execute_pipe / execute_pty has returned, Ok with the result of the command
\* or Err, and write_meta creates the meta file.
ExecutorOpenMeta ==
    \E id \in DOMAIN procs, result \in StoreResults \cup {err_result} :
        /\ procs[id].state = "running"
        /\ id \in DOMAIN tasks
        /\ conns[id].pc = "run"
        /\ procs' = [procs EXCEPT ![id].result = result,
                                  ![id].pipe = @ + procs[id].out_cmd, ![id].out_cmd = 0]
        /\ conns' = [conns EXCEPT ![id] = [pc |-> "writing", started |-> result # err_result]]
        /\ UNCHANGED <<cb, now, call, tlog, tasks, event_queue, next_id, resp, obs,
                       db, rec, ex, io>>

\* write_meta writes the JSON text and returns.
ExecutorWriteMeta ==
    \E id \in DOMAIN procs :
        /\ procs[id].state = "running"
        /\ id \in DOMAIN tasks
        /\ conns[id].pc = "writing"
        /\ procs' = [procs EXCEPT ![id].meta = TRUE]
        /\ conns' = [conns EXCEPT ![id].pc = "wrote"]
        /\ UNCHANGED <<cb, now, call, tlog, tasks, event_queue, next_id, resp, obs,
                       db, rec, ex, io>>

\* The Ok arm of run_exec records the run.
ExecutorRecord ==
    \E id \in DOMAIN procs :
        LET x == run_exec(db, <<tasks[id].command>>, procs[id].result, "ok", now)
        IN  /\ procs[id].state = "running"
            /\ id \in DOMAIN tasks
            /\ conns[id].pc = "wrote"
            /\ conns[id].started
            /\ x.d.next_row <= MaxStoreRows
            /\ db' = x.d
            /\ conns' = [conns EXCEPT ![id].pc = "recorded"]
            /\ UNCHANGED <<cb, now, call, tlog, tasks, event_queue, procs, next_id, resp,
                           obs, rec, ex, io>>

\* process::exit, after record in the Ok arm and after write_meta in the Err arm
ExecutorExitOrder ==
    \E id \in DOMAIN procs :
        /\ procs[id].state = "running"
        /\ id \in DOMAIN tasks
        /\ conns[id].pc = (IF conns[id].started THEN "recorded" ELSE "wrote")
        /\ procs' = [procs EXCEPT ![id].state = "exited"]
        /\ conns' = [conns EXCEPT ![id].pc = "exited"]
        /\ UNCHANGED <<cb, now, call, tlog, tasks, event_queue, next_id, resp, obs,
                       db, rec, ex, io>>

\* tools/call zsh_poll
CallPollOrder ==
    \E order \in Orders(St), task_id \in TaskIds :
        LET S1 == check_and_finalize_background_tasks(St, order, now)
        IN  OrderCall("zsh_poll", task_id, S1, handle_poll(S1, task_id, now), db, FALSE)

\* tools/call zsh_health, or another tool that only reads
CallReadOnlyOrder ==
    \E order \in Orders(St) :
        LET S1 == check_and_finalize_background_tasks(St, order, now)
        IN  OrderCall("zsh_health", 0, S1, [S |-> S1, frame |-> text_content("status")],
                      db, FALSE)

\* The calls are made within one tick of the clock.
OrderNext ==
    \/ CallZshOrder
    \/ ExecutorOpenMeta
    \/ ExecutorWriteMeta
    \/ ExecutorRecord
    \/ ExecutorExitOrder
    \/ CallPollOrder
    \/ CallReadOnlyOrder

OrderSpec == Init /\ [][OrderNext]_vars

\* The exit code finalize_task takes from a pipestatus.
OverallExit(pipestatus) == IF pipestatus = <<>> THEN 0 ELSE Last(pipestatus)

\* The tasks the server has finalized, and those of the [notify] lines of the
\* last response.
Finalized == {id \in DOMAIN tasks : tasks[id].status = "completed"}
Notified == {resp.notify[i].task_id : i \in DOMAIN resp.notify}

\* The server finalizes a task only when its Executor has ended, with the meta
\* file written, and what it returns is what the Executor wrote.
FinalizedAfterExit ==
    /\ \A id \in Finalized \cup Notified : conns[id].pc = "exited"
    /\ \A i \in DOMAIN resp.notify :
          resp.notify[i].exit_code
             = OverallExit(procs[resp.notify[i].task_id].result.pipestatus)
    /\ (resp.tool = "zsh_poll" /\ resp.frame.status = "completed"
           /\ resp.frame.pipestatus # <<>>) =>
          resp.frame.pipestatus = procs[resp.task_id].result.pipestatus

====
